---- MODULE Spec2Model ----
(***************************************************************************)
(* Model of smithers' session and resource lifecycle: the `kill` command   *)
(* (src/src/smithers/commands/kill.py) with the backends it drives: the    *)
(* tmux session service, the GitHub service, the worktree service and the  *)
(* plan files on disk.                                                     *)
(*                                                                         *)
(* One behaviour is one invocation of `smithers kill`.  Init draws the     *)
(* command line (session argument, --all, --force), the live sessions, the *)
(* last-session hint and the number of tracked resources; the actions are  *)
(* the blocks of the command, one per backend call batch.  Every backend   *)
(* call may fail; MaxFaults caps how many do in one run.                   *)
(*                                                                         *)
(* Spec     : one invocation of `smithers kill`.                           *)
(* SpecEnv  : the same, with a worktree or plan file removed by someone    *)
(*            else between discovery and execution.                        *)
(* SpecGit  : calls of GitService.cleanup_worktree, remove_worktrees and   *)
(*            clean_stale_worktrees (src/src/smithers/services/git.py) on  *)
(*            one service object.                                          *)
(* SpecBase : one call of GitService.get_branch_dependency_base.           *)
(* SpecWorktree : calls of GitService.create_worktree and cleanup_worktree *)
(*            on one service object.                                       *)
(* SpecBoard : one invocation of `smithers cleanup` or `smithers projects` *)
(*            (src/src/smithers/commands/cleanup.py, projects.py), or one  *)
(*            call of VibekanbanService.create_task or update_task_status. *)
(* SpecKanban : invocations of `smithers kanban start`, `kill`, `update`   *)
(*            (src/src/smithers/commands/vibekanban.py) run in two         *)
(*            terminals; a command is a sequence of steps, one per read or *)
(*            change of the sessions or of PATH, between which the other   *)
(*            terminal's command runs and npx enters or leaves PATH.       *)
(* SpecTrack : one invocation of `smithers kill` with resources that get   *)
(*            tracked by someone else after discovery.                     *)
(* SpecTracking : calls of GitService.create_worktree, cleanup_worktree    *)
(*            and cleanup_all_worktrees with worktrees removed out-of-band,*)
(*            between calls and between the tool runs of create_worktree.  *)
(***************************************************************************)
EXTENDS Integers, Sequences, FiniteSets, TLC

\* ------------------------------------------------------------------ bounds

\* Largest number of tracked worktrees, of tracked PRs and of tracked plan
\* files a session may own.
MaxRes == 2

\* Largest number of backend calls that fail during one invocation.
MaxFaults == 2

\* ------------------------------------------------------------- vocabulary

None == "None"

\* No session (Python's None where a session name is expected), and no
\* resource.
NoSession == << "none", 0 >>
NoRes == << 0, 0 >>

\* Session names: <<mode token, id>>.  The token stands for the part of the
\* name the naming convention encodes the mode in; "scratch" is a smithers
\* session name that carries no known mode token.
SessionNames == { <<"implement", 1>>, <<"fix", 2>>, <<"scratch", 3>> }

ModeTokens == {"plan", "implement", "fix"}

SessionId(name) == name[2]

\* A resource of session k is <<k, j>>: its j-th worktree branch, its j-th
\* PR, its j-th plan file.  PR <<k, j>> has head branch <<k, j>>.
ResourceIds == { <<SessionId(s), j>> : s \in SessionNames, j \in 1..MaxRes }

VARIABLES
    args,              \* [session, all, force]: the command line
    hint,              \* last-session hint record: a session name or None
    tracked,           \* [wt, pr, plan]: tracked resources per session (artifacts)
    live,              \* tmux: the live sessions
    live0,             \* the live sessions when the command started
    worktrees,         \* git: branches that have a worktree
    openPRs,           \* GitHub: PRs that are open
    branches,          \* GitHub: PR head branches that exist
    planFiles,         \* disk: plan files that exist
    pc,                \* position of the command
    target_session,    \* kill(): target_session / the session being torn down
    session_mode,      \* kill(): session_mode
    tracked_worktrees, \* kill(): tracked_worktrees
    tracked_prs,       \* kill(): tracked_prs
    plan_files,        \* kill(): plan_files
    sessions,          \* _kill_all_sessions(): sessions
    session_info,      \* _kill_all_sessions(): session_info
    idx,               \* _kill_all_sessions(): position in sessions
    i,                 \* position in the list of the running cleanup loop
    prompts,           \* the confirmation prompts shown and their answers
    calls,             \* the backend calls made, in order, with their outcome
    queries,           \* the tmux queries target resolution made
    out,               \* the console lines printed
    exitCode,          \* -1 while running, then the exit status
    faults,            \* backend calls that failed so far
    created_worktrees, \* GitService.created_worktrees
    gitRet,            \* the last GitService call: arguments, outcomes, result
    depends_on,        \* get_branch_dependency_base(): depends_on
    default_base,      \* get_branch_dependency_base(): default_base
    base_ref,          \* get_branch_dependency_base(): the value returned
    worktree_count,    \* git: how many worktrees each branch has
    creating,          \* create_worktree between `git gtr new` and its path lookup
    cmd,               \* board commands: [name, project, force], the command line
    project_list,      \* board: the projects, as list_projects() returns them
    boardTasks,        \* board: the tasks that exist
    cfg,               \* config: [file, env] the active project id in each,
                       \* [enabled_file, enabled_env] the enabled flag in each
    project_id,        \* cleanup(): service.project_id
    tasks,             \* cleanup(): tasks
    tally,             \* cleanup(): [deleted, failed]
    serviceRet,        \* the last VibekanbanService call made by itself: its result
    npx,               \* whether which("npx") finds the tool
    kanbanRet,         \* the last kanban command: what it did and how it ended
    vibekanban_sessions, \* how many vibe-kanban background sessions there are
    terminal           \* kanban commands under way: per terminal, the command,
                       \* the place it is at, was_running, the commands issued

vars == << args, hint, tracked, live, live0, worktrees, openPRs, branches,
           planFiles, pc, target_session, session_mode, tracked_worktrees,
           tracked_prs, plan_files, sessions, session_info, idx, i, prompts,
           calls, queries, out, exitCode, faults, created_worktrees, gitRet,
           depends_on, default_base, base_ref, worktree_count, creating, cmd,
           project_list, boardTasks, cfg, project_id, tasks, tally, npx,
           kanbanRet, vibekanban_sessions, serviceRet, terminal >>

world == << live, worktrees, openPRs, branches, planFiles >>

\* The state of the GitService calls made outside the kill command.
gitVars == << created_worktrees, gitRet, depends_on, default_base, base_ref,
             worktree_count, creating >>

\* The state of the board commands (cleanup, projects).
boardVars == << cmd, project_list, boardTasks, cfg, project_id, tasks, tally,
               serviceRet >>

\* The state of the kanban service commands (start, kill, update).
kanbanVars == << npx, kanbanRet, vibekanban_sessions, terminal >>

\* What the kill command leaves alone.
otherVars == << kanbanVars, boardVars, gitVars >>

locals == << target_session, session_mode, tracked_worktrees, tracked_prs,
             plan_files >>

inputs == << args, hint, tracked, live0 >>

\* ------------------------------------------------------------ TmuxService

RECURSIVE SortedById(_)
SortedById(S) ==
    IF S = {} THEN << >>
    ELSE LET m == CHOOSE s \in S : \A t \in S : SessionId(s) <= SessionId(t)
         IN  << m >> \o SortedById(S \ {m})

\* TmuxService.list_smithers_sessions: the live sessions, in tmux's order.
list_smithers_sessions == SortedById(live)

\* TmuxService.session_exists
session_exists(name) == name \in live

\* TmuxService.get_last_session: the hint record, whether or not its
\* session is still live.
get_last_session == hint

\* TmuxService.get_session_mode: parse of the name against the mode tokens.
get_session_mode(name) ==
    IF name[1] \in ModeTokens THEN name[1] ELSE None

Upto(k, n) == [ j \in 1..n |-> << k, j >> ]

\* TmuxService.get_session_worktrees / get_session_prs /
\* get_session_plan_files: the session's tracking artifacts.
get_session_worktrees(name)  == Upto(SessionId(name), tracked.wt)
get_session_prs(name)        == Upto(SessionId(name), tracked.pr)
get_session_plan_files(name) == Upto(SessionId(name), tracked.plan)

\* TmuxService.kill_session: the live sessions after the call.  A dead
\* session is a no-op that does not raise; a live one is killed (res "ok"),
\* or the call raises and the session stays.
kill_session(name, res) ==
    IF name \notin live THEN live
    ELSE IF res = "ok" THEN live \ {name} ELSE live


\* ---------------------------------------------------------- GitHubService

\* GitHubService.get_pr_info: the PR's head branch, or GitHubError.
get_pr_info(pr, res) ==
    IF res = "ok" THEN [raised |-> FALSE, branch |-> pr]
    ELSE [raised |-> TRUE, branch |-> NoRes]

\* GitHubService.close_pr
close_pr(pr, res) ==
    IF res = "ok" THEN [raised |-> FALSE, openPRs |-> openPRs \ {pr}]
    ELSE [raised |-> TRUE, openPRs |-> openPRs]

\* GitHubService.delete_branch
delete_branch(branch, res) ==
    IF res = "ok" THEN [raised |-> FALSE, branches |-> branches \ {branch}]
    ELSE [raised |-> TRUE, branches |-> branches]

\* -------------------------------------------------------------- GitService

\* How `git gtr rm <branch> --yes` can end: "ok" is exit status 0, after
\* which the branch has no worktree; "nonzero" is any other status, which
\* leaves what there was; "raise" is a failure to launch the command.  The
\* status for a branch that has no worktree is the tool's choice: both are
\* possible.
GtrRmOutcomes(wts, branch) == {"ok", "nonzero", "raise"}

\* list.remove(x): the list without the first x; the caller tests `x in`.
RemoveFirst(list, x) ==
    IF \E k \in 1..Len(list) : list[k] = x
    THEN LET first == CHOOSE k \in 1..Len(list) :
                         list[k] = x /\ \A h \in 1..(k - 1) : list[h] # x
         IN  SubSeq(list, 1, first - 1) \o SubSeq(list, first + 1, Len(list))
    ELSE list

\* cleanup_worktree with the removal run under check=True and the
\* CalledProcessError let through.
cleanup_worktree_Checked(wts, created, branch, res) ==
    [ raised    |-> res \in {"raise", "nonzero"},
      worktrees |-> IF res = "ok" THEN wts \ {branch} ELSE wts,
      created   |-> IF res = "ok" THEN RemoveFirst(created, branch)
                    ELSE created ]

\* GitService.cleanup_worktree: run the removal without check, log a
\* non-zero status, then drop the branch from created_worktrees.  Only a
\* launch failure leaves the method by an exception, before the tracking
\* list is touched.
cleanup_worktree(wts, created, branch, res) ==
    [ raised    |-> res = "raise",
      worktrees |-> IF res = "ok" THEN wts \ {branch} ELSE wts,
      created   |-> IF res = "raise" THEN created
                    ELSE RemoveFirst(created, branch) ]

\* ------------------------------------------------------------- plan files

\* Path.unlink(): raises when the file is absent or cannot be removed.
UnlinkOutcomes(files, f) ==
    IF f \in files THEN {"ok", "raise"} ELSE {"raise"}

unlink(files, f, res) ==
    [ raised |-> res # "ok",
      files  |-> IF res = "ok" THEN files \ {f} ELSE files ]

\* ------------------------------------------------------------------ faults

\* A backend call may take outcome res: the fault-free one always, another
\* one while the fault budget lasts.
Allowed(res, normal) == res = normal \/ faults < MaxFaults

Charge(res, normal) == IF res = normal THEN 0 ELSE 1

Call(op, s, arg, res) == [op |-> op, session |-> s, arg |-> arg, res |-> res]

\* -------------------------------------------------------------------- Init

\* The resources that exist when the command starts: every tracked one.
Worktrees0 == { r \in ResourceIds : r[2] <= tracked.wt }
OpenPRs0   == { r \in ResourceIds : r[2] <= tracked.pr }
Branches0  == { r \in ResourceIds : r[2] <= tracked.pr }
PlanFiles0 == { r \in ResourceIds : r[2] <= tracked.plan }

\* No GitService call was made or asked for.
NoGitCall ==
    [ op |-> "none", arg |-> << >>, res |-> << >>, absent |-> << >>,
      again |-> FALSE, raised |-> FALSE, removed |-> 0, failed |-> 0,
      path |-> << >>, attempted |-> << >> ]

\* No create_worktree call is between its `git gtr new` and its path lookup.
NoCreate == [ active |-> FALSE, arg |-> << >>, again |-> FALSE ]

\* depends_on is None.
Absent == [ present |-> FALSE, s |-> << >> ]

NotReturned == [ returned |-> FALSE, value |-> << >> ]

\* No project id (Python's None where a project id is expected).
NoProject == << "none", 0 >>

\* No project name on the command line.
NoName == << "none" >>

\* No board command is running.
\* No task id (the empty string, or Python's None where an id is expected).
NoTask == << 0, 0 >>

\* No VibekanbanService call was made.
NoServiceCall == [ op |-> "none", called |-> FALSE, ret |-> NoTask ]

BoardIdle ==
    /\ cmd = [name |-> "none", project |-> NoName, force |-> FALSE]
    /\ project_list = << >>
    /\ boardTasks = {}
    /\ cfg = [file |-> NoProject, env |-> NoProject, enabled_file |-> FALSE,
              enabled_env |-> NoName]
    /\ project_id = NoProject
    /\ tasks = << >>
    /\ tally = [deleted |-> 0, failed |-> 0]
    /\ serviceRet = NoServiceCall

\* No kanban command was run.
NoKanbanCall ==
    [ cmd |-> "none", running_before |-> FALSE, ops |-> << >>, exit |-> 0,
      raised |-> FALSE, again |-> FALSE ]

\* The terminals kanban commands are run in: two commands can be under way
\* at the same time.
Terminals == {"t1", "t2"}

\* No kanban command is under way in a terminal.
NoCommand == [ cmd |-> "none", at |-> "none", before |-> FALSE, ops |-> << >> ]

KanbanIdle ==
    /\ npx = FALSE
    /\ kanbanRet = NoKanbanCall
    /\ vibekanban_sessions = 0
    /\ terminal = [ t \in Terminals |-> NoCommand ]

GitIdle ==
    /\ created_worktrees = << >>
    /\ gitRet = NoGitCall
    /\ depends_on = Absent
    /\ default_base = << >>
    /\ base_ref = NotReturned
    /\ worktree_count = << >>
    /\ creating = NoCreate

Init ==
    /\ args \in [session : SessionNames \cup {NoSession}, all : BOOLEAN, force : BOOLEAN]
    /\ hint \in SessionNames \cup {NoSession}
    \* --all reads neither the session argument nor the hint
    /\ args.all => (args.session = NoSession /\ hint = NoSession)
    \* each kind of resource is untracked, or tracked MaxRes times per session;
    \* PR artifacts exist for every session, whatever its mode
    /\ tracked \in [wt : {0, MaxRes}, pr : {0, MaxRes}, plan : {0, MaxRes}]
    /\ live \in SUBSET SessionNames
    /\ live0 = live
    /\ worktrees = Worktrees0
    /\ openPRs   = OpenPRs0
    /\ branches  = Branches0
    /\ planFiles = PlanFiles0
    /\ pc = "start"
    /\ target_session = NoSession
    /\ session_mode = None
    /\ tracked_worktrees = << >>
    /\ tracked_prs = << >>
    /\ plan_files = << >>
    /\ sessions = << >>
    /\ session_info = << >>
    /\ idx = 0
    /\ i = 0
    /\ prompts = << >>
    /\ calls = << >>
    /\ queries = {}
    /\ out = << >>
    /\ exitCode = -1
    /\ faults = 0
    /\ GitIdle
    /\ BoardIdle
    /\ KanbanIdle

\* ------------------------------------------------------------ kill(): 41-80

\* Lines 47-68 with the hint consulted before the argument.
ResolveTargetSession_HintFirst ==
    IF get_last_session # NoSession
    THEN [target |-> get_last_session, queries |-> {"get_last_session"},
          error |-> None]
    ELSE IF args.session # NoSession
    THEN [target |-> args.session, queries |-> {"get_last_session"},
          error |-> None]
    ELSE LET ss == list_smithers_sessions
             q  == {"get_last_session", "list_smithers_sessions"}
         IN  IF ss = << >>
             THEN [target |-> NoSession, queries |-> q, error |-> "no_sessions"]
             ELSE IF Len(ss) = 1
             THEN [target |-> ss[1], queries |-> q, error |-> None]
             ELSE [target |-> NoSession, queries |-> q, error |-> "ambiguous"]

\* Lines 47-68 with the first listed session picked among several.
ResolveTargetSession_PickFirst ==
    IF args.session # NoSession
    THEN [target |-> args.session, queries |-> {}, error |-> None]
    ELSE IF get_last_session # NoSession
    THEN [target |-> get_last_session, queries |-> {"get_last_session"},
          error |-> None]
    ELSE LET ss == list_smithers_sessions
             q  == {"get_last_session", "list_smithers_sessions"}
         IN  IF ss = << >>
             THEN [target |-> NoSession, queries |-> q, error |-> "no_sessions"]
             ELSE [target |-> ss[1], queries |-> q, error |-> None]

\* Lines 47-68 with a hint that names a dead session passed over.
ResolveTargetSession_StaleHintSkipped ==
    IF args.session # NoSession
    THEN [target |-> args.session, queries |-> {}, error |-> None]
    ELSE IF get_last_session # NoSession /\ session_exists(get_last_session)
    THEN [target |-> get_last_session, queries |-> {"get_last_session"},
          error |-> None]
    ELSE LET ss == list_smithers_sessions
             q  == {"get_last_session", "list_smithers_sessions"}
         IN  IF ss = << >>
             THEN [target |-> NoSession, queries |-> q, error |-> "no_sessions"]
             ELSE IF Len(ss) = 1
             THEN [target |-> ss[1], queries |-> q, error |-> None]
             ELSE [target |-> NoSession, queries |-> q, error |-> "ambiguous"]

\* Lines 47-68: the target, or the reason there is none.
ResolveTargetSession ==
    IF args.session # NoSession
    THEN [target |-> args.session, queries |-> {}, error |-> None]
    ELSE IF get_last_session # NoSession
    THEN [target |-> get_last_session, queries |-> {"get_last_session"},
          error |-> None]
    ELSE LET ss == list_smithers_sessions
             q  == {"get_last_session", "list_smithers_sessions"}
         IN  IF ss = << >>
             THEN [target |-> NoSession, queries |-> q, error |-> "no_sessions"]
             ELSE IF Len(ss) = 1
             THEN [target |-> ss[1], queries |-> q, error |-> None]
             ELSE [target |-> NoSession, queries |-> q, error |-> "ambiguous"]

\* _list_sessions (266-275): one line per live session.
ListSessionsLines ==
    [ k \in 1..Len(list_smithers_sessions) |->
        << "session_line", list_smithers_sessions[k] >> ]

\* Lines 74-79: the available sessions.
AvailableLines ==
    [ k \in 1..Len(list_smithers_sessions) |->
        << "available", list_smithers_sessions[k] >> ]

\* The exit statuses with a declined confirmation reported as an error.
ExitStatus_DeclineFails(outcome) ==
    IF outcome \in {"no_sessions", "ambiguous", "not_found", "declined",
                    "all_declined"}
    THEN 1 ELSE 0

\* The status each ending of the command exits with: typer.Exit(1) at lines
\* 60, 68 and 80, typer.Exit(0) at 97, and a plain return at 45/214, 248, 263
\* and at the end of kill().
ExitStatus(outcome) ==
    IF outcome \in {"no_sessions", "ambiguous", "not_found"}
    THEN 1 ELSE 0

Exit(code) ==
    /\ pc' = "done"
    /\ exitCode' = code

\* Lines 70-71: whether kill() goes on with the target it resolved.
TargetVerified_Unchecked(name) == TRUE

TargetVerified(name) == session_exists(name)

\* kill(), lines 41-80 without --all: resolve the target and verify it.
KillResolve ==
    /\ pc = "start"
    /\ ~args.all
    /\ LET r == ResolveTargetSession IN
       /\ queries' = r.queries
       /\ target_session' = r.target
       /\ \/ /\ r.error = "no_sessions"
             /\ out' = out \o << <<"error_no_sessions", NoSession>> >>
             /\ Exit(ExitStatus("no_sessions"))
          \/ /\ r.error = "ambiguous"
             /\ out' = out \o << <<"multiple_found", NoSession>> >>
                           \o ListSessionsLines
                           \o << <<"use_all", NoSession>> >>
             /\ Exit(ExitStatus("ambiguous"))
          \/ /\ r.error = None
             /\ ~TargetVerified(r.target)
             /\ out' = out \o << <<"error_not_found", r.target>> >>
                           \o AvailableLines
             /\ Exit(ExitStatus("not_found"))
          \/ /\ r.error = None
             /\ TargetVerified(r.target)
             /\ out' = out
             /\ pc' = "gather"
             /\ exitCode' = exitCode
    /\ UNCHANGED << otherVars, inputs, world, session_mode, tracked_worktrees, tracked_prs,
                    plan_files, sessions, session_info, idx, i, prompts, calls,
                    faults >>

\* Lines 85-87, and 223 in _kill_all_sessions, with the PRs read whatever
\* the mode.
DiscoverPRs_AnyMode(mode, name) == get_session_prs(name)

\* Lines 85-87, and 223 in _kill_all_sessions: the PRs are read for an
\* implement session only.
DiscoverPRs(mode, name) ==
    IF mode = "implement" THEN get_session_prs(name) ELSE << >>

\* kill(), lines 82-88: gather cleanup info.
KillGather ==
    /\ pc = "gather"
    /\ tracked_worktrees' = get_session_worktrees(target_session)
    /\ session_mode' = get_session_mode(target_session)
    /\ tracked_prs' = DiscoverPRs(get_session_mode(target_session),
                                  target_session)
    /\ plan_files' = get_session_plan_files(target_session)
    /\ pc' = "confirm"
    /\ UNCHANGED << otherVars, inputs, world, target_session, sessions, session_info, idx,
                    i, prompts, calls, queries, out, exitCode, faults >>

\* ------------------------------------------- _kill_session_with_cleanup

\* The cleanup loops with the worktrees removed before the PRs are closed.
NextPhase_WorktreesFirst(phase, mode, prs, wts, plans) ==
    LET afterPrs == IF plans # << >> THEN "plans" ELSE "after"
        afterWts == IF mode = "implement" /\ prs # << >> THEN "prs" ELSE afterPrs
    IN  CASE phase = "kill"  -> IF wts # << >> THEN "wts" ELSE afterWts
          [] phase = "wts"   -> afterWts
          [] phase = "prs"   -> afterPrs
          [] phase = "plans" -> "after"

\* The cleanup loop that runs after `phase`, skipping the empty ones.
NextPhase(phase, mode, prs, wts, plans) ==
    LET afterWts == IF plans # << >> THEN "plans" ELSE "after"
        afterPrs == IF wts # << >> THEN "wts" ELSE afterWts
    IN  CASE phase = "kill"  -> IF mode = "implement" /\ prs # << >>
                                THEN "prs" ELSE afterPrs
          [] phase = "prs"   -> afterPrs
          [] phase = "wts"   -> afterWts
          [] phase = "plans" -> "after"

\* The next iteration of the running loop, or the first of the next one.
Advance(list) ==
    IF i < Len(list)
    THEN /\ i' = i + 1
         /\ pc' = pc
    ELSE /\ i' = 1
         /\ pc' = NextPhase(pc, session_mode, tracked_prs, tracked_worktrees,
                            plan_files)

LeaveLoop ==
    /\ i' = 1
    /\ pc' = NextPhase(pc, session_mode, tracked_prs, tracked_worktrees,
                       plan_files)

\* Lines 167-168 and 183-184: the try is inside the for, so an iteration
\* that raised is followed by the next one.
PRLoopNext_Abort(raised) ==
    IF raised THEN LeaveLoop ELSE Advance(tracked_prs)

PRLoopNext(raised) == Advance(tracked_prs)

\* Lines 190-191 and 194-195.
WorktreeLoopNext_Abort(raised) ==
    IF raised THEN LeaveLoop ELSE Advance(tracked_worktrees)

WorktreeLoopNext(raised) == Advance(tracked_worktrees)

\* Lines 200-201 and 204-205.
PlanLoopNext_Abort(raised) ==
    IF raised THEN LeaveLoop ELSE Advance(plan_files)

PlanLoopNext(raised) == Advance(plan_files)

\* Lines 193 and 195: the line printed for one worktree.
WorktreeLine(raised, branch) ==
    IF raised THEN << "warn_worktree", branch >>
    ELSE << "removed_worktree", branch >>

\* Lines 91-97: whether kill() goes on to the cleanup.
ConfirmGate_Open(force, confirm) == TRUE

ConfirmGate(force, confirm) == force \/ confirm

\* Lines 244-248: whether _kill_all_sessions() goes on to the kill loop.
AllConfirmGate_Open(force, confirm) == TRUE

AllConfirmGate(force, confirm) == force \/ confirm

ShowCleanupInfo ==
    << "cleanup_info",
       [ session |-> target_session, mode |-> session_mode,
         worktrees |-> tracked_worktrees,
         prs |-> IF session_mode = "implement" THEN tracked_prs ELSE << >>,
         plans |-> plan_files ] >>

\* kill(), lines 90-99: confirm unless --force.
KillConfirm ==
    /\ pc = "confirm"
    /\ \/ /\ args.force
          /\ prompts' = prompts
          /\ out' = out
          /\ pc' = "kill"
          /\ exitCode' = exitCode
       \/ /\ ~args.force
          /\ \E confirm \in BOOLEAN :
               /\ prompts' = Append(prompts, [about |-> <<target_session>>,
                                              answer |-> confirm])
               /\ IF ConfirmGate(args.force, confirm)
                  THEN /\ out' = Append(out, ShowCleanupInfo)
                       /\ pc' = "kill"
                       /\ exitCode' = exitCode
                  ELSE /\ out' = out \o << ShowCleanupInfo, <<"cancelled", NoSession>> >>
                       /\ Exit(ExitStatus("declined"))
    /\ UNCHANGED << otherVars, inputs, world, locals, sessions, session_info, idx, i,
                    calls, queries, faults >>

\* Line 160: tmux_service.kill_session(session_name), outside any try.
KillSessionStep ==
    /\ pc = "kill"
    /\ \E res \in {"ok", "raise"} :
         /\ Allowed(res, "ok")
         /\ faults' = faults + Charge(res, "ok")
         /\ live' = kill_session(target_session, res)
         /\ calls' = Append(calls, Call("kill_session", target_session,
                                        << SessionId(target_session), 0 >>, res))
         /\ IF res = "raise"
            THEN /\ pc' = "crashed"
                 /\ exitCode' = 1
                 /\ i' = i
            ELSE /\ pc' = NextPhase("kill", session_mode, tracked_prs,
                                    tracked_worktrees, plan_files)
                 /\ exitCode' = exitCode
                 /\ i' = 1
    /\ UNCHANGED << otherVars, inputs, worktrees, openPRs, branches, planFiles, locals,
                    sessions, session_info, idx, prompts, queries, out >>

\* Lines 167-184 with the branch deleted whether or not the close succeeded.
PRStep_DeleteRegardless ==
    /\ pc = "prs"
    /\ LET pr == tracked_prs[i]
           s  == target_session
       IN \E r2 \in {"ok", "raise"} :
            LET info == get_pr_info(pr, "ok")
                cl   == close_pr(pr, r2)
                del  == delete_branch(info.branch, "ok")
            IN /\ faults' = faults
               /\ calls' = calls \o << Call("get_pr_info", s, pr, "ok"),
                                       Call("close_pr", s, pr, r2),
                                       Call("delete_branch", s, info.branch, "ok") >>
               /\ openPRs' = cl.openPRs
               /\ branches' = del.branches
               /\ out' = out \o << << IF cl.raised THEN "warn_pr" ELSE "closed_pr",
                                      pr >>,
                                   << "deleted_branch", info.branch >> >>
               /\ PRLoopNext(FALSE)
    /\ UNCHANGED << otherVars, inputs, live, worktrees, planFiles, locals, sessions,
                    session_info, idx, prompts, queries, exitCode >>

\* Lines 167-184: one iteration of the PR loop.
PRStep ==
    /\ pc = "prs"
    /\ LET pr == tracked_prs[i]
           s  == target_session
       IN \E r1, r2, r3 \in {"ok", "raise"} :
            LET info == get_pr_info(pr, r1)
                cl   == close_pr(pr, r2)
                del  == delete_branch(info.branch, r3)
            IN
            \/ /\ r1 = "raise" /\ r2 = "ok" /\ r3 = "ok"
               /\ Allowed(r1, "ok")
               /\ faults' = faults + 1
               /\ calls' = Append(calls, Call("get_pr_info", s, pr, r1))
               /\ out' = Append(out, <<"warn_pr", pr>>)
               /\ UNCHANGED << openPRs, branches >>
               /\ PRLoopNext(info.raised)
            \/ /\ r1 = "ok" /\ r2 = "raise" /\ r3 = "ok"
               /\ Allowed(r2, "ok")
               /\ faults' = faults + 1
               /\ calls' = calls \o << Call("get_pr_info", s, pr, r1),
                                       Call("close_pr", s, pr, r2) >>
               /\ out' = Append(out, <<"warn_pr", pr>>)
               /\ UNCHANGED << openPRs, branches >>
               /\ PRLoopNext(cl.raised)
            \/ /\ r1 = "ok" /\ r2 = "ok"
               /\ Allowed(r3, "ok")
               /\ faults' = faults + Charge(r3, "ok")
               /\ calls' = calls \o << Call("get_pr_info", s, pr, r1),
                                       Call("close_pr", s, pr, r2),
                                       Call("delete_branch", s, info.branch, r3) >>
               /\ openPRs' = cl.openPRs
               /\ branches' = del.branches
               /\ out' = out \o << <<"closed_pr", pr>> >>
                             \o (IF del.raised THEN << <<"warn_pr", pr>> >>
                                 ELSE << <<"deleted_branch", info.branch>> >>)
               /\ PRLoopNext(del.raised)
    /\ UNCHANGED << otherVars, inputs, live, worktrees, planFiles, locals, sessions,
                    session_info, idx, prompts, queries, exitCode >>

\* Lines 190-195: one iteration of the worktree loop, on a fresh GitService.
WorktreeStep ==
    /\ pc = "wts"
    /\ LET branch == tracked_worktrees[i] IN
       \E res \in GtrRmOutcomes(worktrees, branch) :
         LET normal == IF branch \in worktrees \/ res = "ok" THEN "ok"
                       ELSE "nonzero"
             r == cleanup_worktree(worktrees, << >>, branch, res)
         IN /\ Allowed(res, normal)
            /\ faults' = faults + Charge(res, normal)
            /\ worktrees' = r.worktrees
            /\ calls' = Append(calls, Call("cleanup_worktree", target_session,
                                           branch, res))
            /\ out' = Append(out, WorktreeLine(r.raised, branch))
            /\ WorktreeLoopNext(r.raised)
    /\ UNCHANGED << otherVars, inputs, live, openPRs, branches, planFiles, locals,
                    sessions, session_info, idx, prompts, queries, exitCode >>

\* Lines 200-205: one iteration of the plan file loop.
PlanFileStep ==
    /\ pc = "plans"
    /\ LET f == plan_files[i] IN
       \E res \in UnlinkOutcomes(planFiles, f) :
         LET normal == IF f \in planFiles THEN "ok" ELSE "raise"
             r == unlink(planFiles, f, res)
         IN /\ Allowed(res, normal)
            /\ faults' = faults + Charge(res, normal)
            /\ planFiles' = r.files
            /\ calls' = Append(calls, Call("unlink", target_session, f, res))
            /\ out' = Append(out, IF r.raised THEN <<"warn_plan", f>>
                                  ELSE <<"deleted_plan", f>>)
            /\ PlanLoopNext(r.raised)
    /\ UNCHANGED << otherVars, inputs, live, worktrees, openPRs, branches, locals,
                    sessions, session_info, idx, prompts, queries, exitCode >>

\* Line 108 with a cleanup warning turned into a hard error.
KillReport_HardError ==
    /\ pc = "after"
    /\ ~args.all
    /\ IF \E k \in 1..Len(out) :
             out[k][1] \in {"warn_pr", "warn_worktree", "warn_plan"}
       THEN /\ out' = out
            /\ Exit(1)
       ELSE /\ out' = Append(out, <<"session_killed", target_session>>)
            /\ Exit(ExitStatus("killed"))
    /\ UNCHANGED << otherVars, inputs, world, locals, sessions, session_info, idx, i,
                    prompts, calls, queries, faults >>

\* kill(), line 108: the cleanup returned.
KillReport ==
    /\ pc = "after"
    /\ ~args.all
    /\ out' = Append(out, <<"session_killed", target_session>>)
    /\ Exit(ExitStatus("killed"))
    /\ UNCHANGED << otherVars, inputs, world, locals, sessions, session_info, idx, i,
                    prompts, calls, queries, faults >>

\* ------------------------------------------------------ _kill_all_sessions

\* Lines 221-232: the info gathered for one session.
SessionInfo(name) ==
    LET mode == get_session_mode(name) IN
    [ mode |-> mode,
      worktrees |-> get_session_worktrees(name),
      prs |-> DiscoverPRs(mode, name),
      plan_files |-> get_session_plan_files(name) ]

\* Lines 251-260 with the sessions taken from the end of the list.
LoadSession_Reversed(ss, info, k) ==
    /\ idx' = k
    /\ target_session' = ss[Len(ss) + 1 - k]
    /\ session_mode' = info[Len(ss) + 1 - k].mode
    /\ tracked_worktrees' = info[Len(ss) + 1 - k].worktrees
    /\ tracked_prs' = info[Len(ss) + 1 - k].prs
    /\ plan_files' = info[Len(ss) + 1 - k].plan_files
    /\ pc' = "kill"

\* Lines 252-260 with the tracking artifacts of sessions[k] read again.
LoadSession_Rediscover(ss, info, k) ==
    /\ idx' = k
    /\ target_session' = ss[k]
    /\ session_mode' = SessionInfo(ss[k]).mode
    /\ tracked_worktrees' = SessionInfo(ss[k]).worktrees
    /\ tracked_prs' = SessionInfo(ss[k]).prs
    /\ plan_files' = SessionInfo(ss[k]).plan_files
    /\ pc' = "kill"

\* Lines 252-260: the arguments of the cleanup of sessions[k].
LoadSession(ss, info, k) ==
    /\ idx' = k
    /\ target_session' = ss[k]
    /\ session_mode' = info[k].mode
    /\ tracked_worktrees' = info[k].worktrees
    /\ tracked_prs' = info[k].prs
    /\ plan_files' = info[k].plan_files
    /\ pc' = "kill"

\* Lines 210-241: list the sessions and gather their info.
KillAllGather ==
    /\ pc = "start"
    /\ args.all
    /\ LET ss == list_smithers_sessions IN
       /\ sessions' = ss
       /\ session_info' = [ k \in 1..Len(ss) |-> SessionInfo(ss[k]) ]
       /\ IF ss = << >>
          THEN /\ out' = Append(out, <<"no_sessions", NoSession>>)
               /\ Exit(ExitStatus("all_no_sessions"))
          ELSE /\ out' = out \o [ k \in 1..Len(ss) |->
                                    << "to_kill", [session |-> ss[k],
                                                   info |-> SessionInfo(ss[k])] >> ]
               /\ pc' = "confirm_all"
               /\ exitCode' = exitCode
    /\ UNCHANGED << otherVars, inputs, world, locals, idx, i, prompts, calls, queries,
                    faults >>

\* Lines 243-252: confirm once unless --force, then start on the first.
KillAllConfirm ==
    /\ pc = "confirm_all"
    /\ \/ /\ args.force
          /\ prompts' = prompts
          /\ out' = out
          /\ exitCode' = exitCode
          /\ LoadSession(sessions, session_info, 1)
       \/ /\ ~args.force
          /\ \E confirm \in BOOLEAN :
               /\ prompts' = Append(prompts, [about |-> sessions,
                                              answer |-> confirm])
               /\ IF AllConfirmGate(args.force, confirm)
                  THEN /\ out' = out
                       /\ exitCode' = exitCode
                       /\ LoadSession(sessions, session_info, 1)
                  ELSE /\ out' = Append(out, <<"cancelled", NoSession>>)
                       /\ Exit(ExitStatus("all_declined"))
                       /\ UNCHANGED << idx, locals >>
    /\ UNCHANGED << otherVars, inputs, world, sessions, session_info, i, calls, queries,
                    faults >>

\* Lines 261-263: the cleanup of sessions[idx] returned.
KillAllNext ==
    /\ pc = "after"
    /\ args.all
    /\ IF idx < Len(sessions)
       THEN /\ out' = Append(out, <<"killed", sessions[idx]>>)
            /\ exitCode' = exitCode
            /\ LoadSession(sessions, session_info, idx + 1)
       ELSE /\ out' = out \o << <<"killed", sessions[idx]>>,
                                <<"killed_count", Len(sessions)>> >>
            /\ Exit(ExitStatus("all_killed"))
            /\ UNCHANGED << idx, locals >>
    /\ UNCHANGED << otherVars, inputs, world, sessions, session_info, i, prompts, calls,
                    queries, faults >>

\* -------------------------------------------------------------------- Spec

Next ==
    \/ KillResolve
    \/ KillGather
    \/ KillConfirm
    \/ KillSessionStep
    \/ PRStep
    \/ WorktreeStep
    \/ PlanFileStep
    \/ KillReport
    \/ KillAllGather
    \/ KillAllConfirm
    \/ KillAllNext

Spec == Init /\ [][Next]_vars

\* ----------------------------------------------------- reading the run

\* The teardown calls and what step of the execution each belongs to.
StepOf(op) ==
    CASE op = "kill_session"     -> 1
      [] op \in {"get_pr_info", "close_pr", "delete_branch"} -> 2
      [] op = "cleanup_worktree" -> 3
      [] op = "unlink"           -> 4

\* The arguments of the calls `op` made for session s, in order.
ArgsOf(s, op) ==
    LET sel == SelectSeq(calls, LAMBDA c : c.session = s /\ c.op = op)
    IN  [ k \in 1..Len(sel) |-> sel[k].arg ]

\* The PRs the teardown of s has to process.
ExpectedPRs(s) ==
    IF get_session_mode(s) = "implement" THEN get_session_prs(s) ELSE << >>

KillAttempted(s) ==
    \E k \in 1..Len(calls) : calls[k].op = "kill_session" /\ calls[k].session = s

KillReturned(s) ==
    \E k \in 1..Len(calls) :
        calls[k].op = "kill_session" /\ calls[k].session = s /\ calls[k].res = "ok"

KillRaised(s) ==
    \E k \in 1..Len(calls) :
        calls[k].op = "kill_session" /\ calls[k].session = s /\ calls[k].res = "raise"

Rank(p) ==
    CASE p = "kill"  -> 1
      [] p = "prs"   -> 2
      [] p = "wts"   -> 3
      [] p = "plans" -> 4
      [] p \in {"after", "done"} -> 5
      [] OTHER -> 0

\* The teardown of s has gone through step n.
Past(s, n) == KillReturned(s) /\ (target_session = s => Rank(pc) > n)

\* Every tracked resource of s had its removal attempted.
AllAttempted(s) ==
    /\ KillAttempted(s)
    /\ ArgsOf(s, "get_pr_info") = ExpectedPRs(s)
    /\ ArgsOf(s, "cleanup_worktree") = get_session_worktrees(s)
    /\ ArgsOf(s, "unlink") = get_session_plan_files(s)

Terminated == pc \in {"done", "crashed"}

WorldUntouched ==
    /\ live = live0
    /\ worktrees = Worktrees0
    /\ openPRs = OpenPRs0
    /\ branches = Branches0
    /\ planFiles = PlanFiles0

Declined == prompts # << >> /\ ~prompts[Len(prompts)].answer

Affirmed == prompts # << >> /\ prompts[Len(prompts)].answer

Kinds(lines) == { lines[k][1] : k \in 1..Len(lines) }

CountLines(kinds) == Len(SelectSeq(out, LAMBDA l : l[1] \in kinds))

CountCalls(ops, results) ==
    Len(SelectSeq(calls, LAMBDA c : c.op \in ops /\ c.res \in results))

\* ------------------------------------------------------------------ claims

\* C1: without --force, in single kill and in kill --all, no teardown call
\* is made and nothing of the world changes before the user has answered
\* the confirmation with yes; after a decline the command has ended with
\* every session, PR, branch, worktree and plan file as at the start.
C1_ConfirmationGatesTeardown ==
    /\ (~args.force /\ ~Affirmed) => (calls = << >> /\ WorldUntouched)
    /\ Declined => (pc = "done" /\ calls = << >> /\ WorldUntouched)

C1_Witness_Declined ==
    /\ Declined
    /\ pc = "done"
    /\ ~args.force
    /\ tracked_worktrees # << >>
    /\ tracked_prs # << >>
    /\ plan_files # << >>

\* C2: within the teardown of one session the calls come in the order
\* kill, PRs, worktrees, plan files, and a step starts only after every
\* item of the earlier steps was attempted: any call is preceded by the
\* kill, a worktree removal by the lookup of every tracked PR, a plan file
\* deletion by the removal of every tracked worktree.
C2_StrictStepOrder ==
    \A b \in 1..Len(calls) :
        LET c == calls[b]
            before(op) ==
                LET sel == SelectSeq(SubSeq(calls, 1, b - 1),
                                     LAMBDA d : d.session = c.session /\ d.op = op)
                IN  [ k \in 1..Len(sel) |-> sel[k].arg ]
        IN  /\ \A a \in 1..(b - 1) :
                 calls[a].session = c.session => StepOf(calls[a].op) <= StepOf(c.op)
            /\ StepOf(c.op) >= 2 => Len(before("kill_session")) = 1
            /\ StepOf(c.op) >= 3 => before("get_pr_info") = ExpectedPRs(c.session)
            /\ StepOf(c.op) >= 4 =>
                 before("cleanup_worktree") = get_session_worktrees(c.session)

C2_Witness_AllFourSteps ==
    /\ pc = "done"
    /\ CountCalls({"kill_session"}, {"ok"}) >= 1
    /\ CountCalls({"get_pr_info"}, {"ok", "raise"}) >= 2
    /\ CountCalls({"cleanup_worktree"}, {"ok", "nonzero", "raise"}) >= 2
    /\ CountCalls({"unlink"}, {"ok", "raise"}) >= 2

\* C3: in kill --all, once the kill loop has run and the command has
\* ended, every session of the batch had its kill attempted and every one
\* of its tracked resources attempted, whatever failed before.
C3_BatchFullyProcessed ==
    (args.all /\ Terminated /\ calls # << >>) =>
        \A k \in 1..Len(sessions) : AllAttempted(sessions[k])

\* C4: in a kill --all batch that ran to its end and in which exactly one
\* call failed, a worktree removal (its command exited non-zero or could
\* not be launched), the report shows one resource failure: exactly one
\* warning line is printed.
C4_OneFailureShown ==
    ( /\ args.all
      /\ pc = "done"
      /\ CountCalls({"kill_session", "get_pr_info", "close_pr", "delete_branch",
                     "cleanup_worktree", "unlink"}, {"nonzero", "raise"}) = 1
      /\ CountCalls({"cleanup_worktree"}, {"nonzero", "raise"}) = 1 )
    => CountLines({"warn_pr", "warn_worktree", "warn_plan"}) = 1

\* C5: a failure of step 1 (the session kill) does not prevent the later
\* steps: once the command has ended, a session whose kill failed had every
\* tracked PR, worktree and plan file attempted.
C5_KillFailureDoesNotBlock ==
    \A s \in SessionNames :
        (Terminated /\ KillRaised(s)) => AllAttempted(s)

\* C6: once the teardown of a session has gone through step 2, every
\* tracked PR had its lookup attempted exactly once, in the tracked order,
\* whichever of them failed in lookup, close or branch delete.
C6_EveryPRLookedUp ==
    \A s \in SessionNames :
        Past(s, 2) => ArgsOf(s, "get_pr_info") = ExpectedPRs(s)

C6_Witness_AllPRsFail ==
    /\ pc = "done"
    /\ tracked.pr >= 2
    /\ \E s \in SessionNames :
         /\ Past(s, 2)
         /\ Len(ExpectedPRs(s)) >= 2
         /\ CountCalls({"get_pr_info", "close_pr", "delete_branch"}, {"raise"})
              = Len(ExpectedPRs(s))

\* C7: once the teardown of a session has gone through step 3, removal was
\* attempted for every tracked worktree exactly once, in the tracked order;
\* and once it has gone through step 4 every plan file was attempted too,
\* whatever the worktree removals did.
C7_EveryWorktreeAttempted ==
    \A s \in SessionNames :
        /\ Past(s, 3) => ArgsOf(s, "cleanup_worktree") = get_session_worktrees(s)
        /\ Past(s, 4) => ArgsOf(s, "unlink") = get_session_plan_files(s)
        /\ (Past(s, 3) /\ target_session = s /\ plan_files # << >>
               /\ calls[Len(calls)].op = "cleanup_worktree") => pc = "plans"

C7_Witness_FirstWorktreeFails ==
    /\ pc = "done"
    /\ \E s \in SessionNames :
         /\ Past(s, 4)
         /\ Len(get_session_worktrees(s)) >= 2
         /\ tracked.plan >= 1
         /\ \E k \in 1..Len(calls) :
              /\ calls[k].op = "cleanup_worktree"
              /\ calls[k].session = s
              /\ calls[k].arg = get_session_worktrees(s)[1]
              /\ calls[k].res = "raise"

\* C8: once the teardown of a session has gone through step 4, deletion
\* was attempted for every tracked plan file exactly once, in the tracked
\* order, whichever of them failed.
C8_EveryPlanFileAttempted ==
    \A s \in SessionNames :
        Past(s, 4) => ArgsOf(s, "unlink") = get_session_plan_files(s)

C8_Witness_FirstPlanFileFails ==
    /\ pc = "done"
    /\ \E s \in SessionNames :
         /\ Past(s, 4)
         /\ Len(get_session_plan_files(s)) >= 2
         /\ \E k \in 1..Len(calls) :
              /\ calls[k].op = "unlink"
              /\ calls[k].session = s
              /\ calls[k].arg = get_session_plan_files(s)[1]
              /\ calls[k].res = "raise"

\* C9: target resolution of a single kill: a given name is the target and
\* neither the hint nor the session list is queried; without a name a
\* hint is the target; without either, a single live session is the target.
C9_ResolutionPriority ==
    (~args.all /\ pc # "start") =>
        /\ args.session # NoSession =>
             (target_session = args.session /\ queries = {})
        /\ (args.session = NoSession /\ hint # NoSession) =>
             (target_session = hint /\ "list_smithers_sessions" \notin queries)
        /\ (args.session = NoSession /\ hint = NoSession
              /\ Cardinality(live0) = 1) => target_session \in live0

C9_Witness_NameBeatsHint ==
    /\ ~args.all
    /\ pc = "gather"
    /\ args.session # NoSession
    /\ hint # NoSession
    /\ hint # args.session
    /\ hint \in live
    /\ target_session = args.session

\* C10: with two or more live sessions and neither a name nor a hint, a
\* single kill ends with the ambiguous-target condition: exit status 1, the
\* lines list exactly the live sessions, no target is picked, no call is
\* made and nothing is removed.
C10_AmbiguousTarget ==
    ( /\ ~args.all
      /\ pc # "start"
      /\ args.session = NoSession
      /\ hint = NoSession
      /\ Cardinality(live0) >= 2 )
    => /\ pc = "done"
       /\ exitCode = 1
       /\ out[1] = << "multiple_found", NoSession >>
       /\ { out[k][2] : k \in { n \in 1..Len(out) : out[n][1] = "session_line" } }
            = live0
       /\ CountLines({"session_line"}) = Cardinality(live0)
       /\ target_session = NoSession
       /\ prompts = << >>
       /\ calls = << >>
       /\ WorldUntouched

C10_Witness_ThreeLive ==
    /\ ~args.all
    /\ pc = "done"
    /\ args.session = NoSession
    /\ hint = NoSession
    /\ Cardinality(live0) = 3
    /\ exitCode = 1

\* The name a single kill was given: the argument, else the hint.
NamedTarget == IF args.session # NoSession THEN args.session ELSE hint

\* C11: a single kill of a name that is not a live session ends at once
\* with the not-found error and exit status 1, prints exactly the live
\* sessions as the available ones, asks nothing, gathers no mode, worktree,
\* PR or plan file, makes no call and leaves every session, PR, branch,
\* worktree and plan file as at the start.
C11_NotFoundChangesNothing ==
    ( /\ ~args.all
      /\ pc # "start"
      /\ NamedTarget # NoSession
      /\ NamedTarget \notin live0 )
    => /\ pc = "done"
       /\ exitCode = 1
       /\ out[1] = << "error_not_found", NamedTarget >>
       /\ Len(out) = 1 + Cardinality(live0)
       /\ \A k \in 2..Len(out) : out[k][1] = "available"
       /\ { out[k][2] : k \in 2..Len(out) } = live0
       /\ prompts = << >>
       /\ session_mode = None
       /\ tracked_worktrees = << >>
       /\ tracked_prs = << >>
       /\ plan_files = << >>
       /\ calls = << >>
       /\ WorldUntouched

C11_Witness_DeadNameWithResources ==
    /\ ~args.all
    /\ pc = "done"
    /\ args.session = << "implement", 1 >>
    /\ args.session \notin live0
    /\ args.force
    /\ Cardinality(live0) = 2
    /\ get_session_worktrees(args.session) # << >>
    /\ get_session_prs(args.session) # << >>
    /\ get_session_plan_files(args.session) # << >>
    /\ exitCode = 1

\* The command printed its final report and returned.
Reported ==
    /\ pc = "done"
    /\ exitCode = 0
    /\ out # << >>
    /\ out[Len(out)][1] \in {"session_killed", "killed_count"}

\* C12: once the execution has started, whatever lookups, closes, branch
\* deletes, worktree removals, plan-file deletes and session kills fail, the
\* teardown is never stuck short of its report: it has reported, or it has a
\* next step to take.
C12_NoAbortPath ==
    calls # << >> => (Reported \/ ENABLED Next)

PROps == {"get_pr_info", "close_pr", "delete_branch"}

\* C13: in single kill and in kill --all, PRs are gathered for an implement
\* session only, every PR lookup, PR close and branch delete is made for an
\* implement session, and the PRs and PR branches tracked for a session of
\* another mode (fix, plan, none) stay open and undeleted.
C13_PRsOnlyForImplement ==
    /\ tracked_prs # << >> => session_mode = "implement"
    /\ \A k \in 1..Len(session_info) :
          session_info[k].prs # << >> => get_session_mode(sessions[k]) = "implement"
    /\ \A k \in 1..Len(calls) :
          calls[k].op \in PROps => get_session_mode(calls[k].session) = "implement"
    /\ \A s \in SessionNames :
          get_session_mode(s) # "implement" =>
             \A j \in 1..tracked.pr :
                 << SessionId(s), j >> \in openPRs \cap branches

C13_Witness_OtherModesTornDown ==
    /\ args.all
    /\ pc = "done"
    /\ tracked.pr = MaxRes
    /\ KillReturned(<< "fix", 2 >>)
    /\ KillReturned(<< "scratch", 3 >>)
    /\ get_session_prs(<< "fix", 2 >>) # << >>
    /\ get_session_prs(<< "scratch", 3 >>) # << >>
    /\ CountCalls(PROps, {"ok"}) > 0

\* Some call of the PR, worktree or plan-file step did not succeed.
DownstreamFailures ==
    CountCalls(PROps \cup {"cleanup_worktree", "unlink"}, {"nonzero", "raise"})

\* C16: once the session kill has succeeded, whatever fails in the PR,
\* worktree and plan-file steps, the command does not crash, a single kill
\* ends with exit status 0 and "Session ... has been killed" as its last
\* line, and kill --all prints "Killed" for every session whose teardown
\* it has left.
C16_KilledOnceStepOneSucceeds ==
    /\ (Terminated /\ ~args.all /\ KillReturned(target_session))
          => /\ pc = "done"
             /\ exitCode = 0
             /\ out[Len(out)] = << "session_killed", target_session >>
    /\ \A s \in SessionNames :
          (args.all /\ KillReturned(s) /\ (target_session # s \/ Terminated))
             => << "killed", s >> \in { out[k] : k \in 1..Len(out) }
    /\ (Terminated /\ args.all /\ calls # << >>
          /\ \A k \in 1..Len(sessions) : KillReturned(sessions[k]))
          => (pc = "done" /\ exitCode = 0)

C16_Witness_DownstreamFailures ==
    /\ ~args.all
    /\ pc = "done"
    /\ KillReturned(target_session)
    /\ DownstreamFailures = MaxFaults
    /\ CountLines({"warn_pr", "warn_plan"}) = MaxFaults
    /\ exitCode = 0

\* A single kill has nothing to resolve to: no name, no hint, and no live
\* session or several.
NoTarget == ~args.all /\ NamedTarget = NoSession /\ Cardinality(live0) # 1

\* A single kill was given a name that is not live.
NotFound == ~args.all /\ NamedTarget # NoSession /\ NamedTarget \notin live0

\* kill --all found no session to kill.
AllNothingToKill == args.all /\ live0 = {}

\* C17 as stated: the command exits with 0 after a teardown and after a
\* declined confirmation and with 1 whenever there was no session to kill,
\* the target was ambiguous or the target was not found, in single kill and
\* in kill --all alike.
C17_ExitStatusAlike ==
    pc = "done" =>
       /\ (calls # << >> \/ Declined) => exitCode = 0
       /\ (NoTarget \/ NotFound \/ AllNothingToKill) => exitCode = 1

\* C17: the command exits with 0 after a teardown and after a declined
\* confirmation; a single kill exits with 1 when there is no session to
\* kill, the target is ambiguous or the target is not found; kill --all with
\* no live session prints its notice, does nothing and exits with 0.
C17_ExitStatus ==
    pc = "done" =>
       /\ (calls # << >> \/ Declined) => exitCode = 0
       /\ (NoTarget \/ NotFound) => exitCode = 1
       /\ AllNothingToKill =>
             /\ exitCode = 0
             /\ out = << << "no_sessions", NoSession >> >>
             /\ calls = << >>
             /\ prompts = << >>

C17_Witness_AllWithNoSessions ==
    /\ pc = "done"
    /\ args.all
    /\ live0 = {}
    /\ exitCode = 0
    /\ out # << >>

\* C18: kill --all asks for confirmation once for the whole batch and
\* never again, whatever the number of sessions: once it is past the
\* confirmation there is exactly one prompt, about all the sessions, without
\* --force and no prompt with --force; after a decline the command has ended
\* with every session of the batch alive and no call made.
C18_BatchConfirmedOnce ==
    args.all =>
       /\ Len(prompts) <= 1
       /\ args.force => prompts = << >>
       /\ (~args.force /\ sessions # << >> /\ pc \notin {"start", "confirm_all"})
             => (Len(prompts) = 1 /\ prompts[1].about = sessions)
       /\ Declined => /\ pc = "done"
                      /\ live = live0
                      /\ \A k \in 1..Len(sessions) : sessions[k] \in live
                      /\ calls = << >>

C18_Witness_ThreeKilledOnePrompt ==
    /\ args.all
    /\ ~args.force
    /\ pc = "done"
    /\ Len(sessions) = 3
    /\ \A k \in 1..Len(sessions) : KillReturned(sessions[k])
    /\ Len(prompts) = 1

\* ------------------------------------------ concurrent external mutation

\* Somebody else removes a worktree or a plan file after the command has
\* discovered the resources and before it starts the teardown.  The removal
\* is charged to the fault budget.
ExternalRemoval ==
    /\ pc \in {"confirm", "confirm_all"}
    /\ faults < MaxFaults
    /\ faults' = faults + 1
    /\ \/ /\ \E r \in worktrees : worktrees' = worktrees \ {r}
          /\ planFiles' = planFiles
       \/ /\ \E f \in planFiles : planFiles' = planFiles \ {f}
          /\ worktrees' = worktrees
    /\ UNCHANGED << otherVars, inputs, live, openPRs, branches, locals, sessions,
                    session_info, idx, i, prompts, calls, queries, out,
                    pc, exitCode >>

NextEnv ==
    \/ Next
    \/ ExternalRemoval

SpecEnv == Init /\ [][NextEnv]_vars

\* The worktrees and the plan files that are gone without a successful
\* removal by the command.
RemovedOutOfBand(all0, now, op) ==
    { r \in all0 \ now :
        ~\E k \in 1..Len(calls) :
            calls[k].op = op /\ calls[k].arg = r /\ calls[k].res = "ok" }

OutLines == { out[k] : k \in 1..Len(out) }

\* C14: when a tracked worktree or plan file was removed out-of-band
\* between discovery and execution, its removal step finds it absent and is
\* reported as a success and not as a failure, and a teardown whose session
\* kills returned ends with its report.
C14_AbsentIsSuccess ==
    /\ \A k \in 1..Len(calls) :
          ( /\ calls[k].op = "cleanup_worktree"
            /\ calls[k].res = "nonzero"
            /\ calls[k].arg \in RemovedOutOfBand(Worktrees0, worktrees,
                                                 "cleanup_worktree") )
          => /\ << "removed_worktree", calls[k].arg >> \in OutLines
             /\ << "warn_worktree", calls[k].arg >> \notin OutLines
    /\ \A k \in 1..Len(calls) :
          ( /\ calls[k].op = "unlink"
            /\ calls[k].arg \in RemovedOutOfBand(PlanFiles0, planFiles, "unlink") )
          => /\ << "deleted_plan", calls[k].arg >> \in OutLines
             /\ << "warn_plan", calls[k].arg >> \notin OutLines
    /\ (Terminated /\ calls # << >> /\ \A s \in SessionNames : ~KillRaised(s))
          => Reported

\* ------------------------------------------ GitService outside of kill

\* The branches GitService is asked about.
GitBranches == { << 1, j >> : j \in 1..MaxRes }

\* The lists of branches remove_worktrees is given.
BranchLists == UNION { [1..n -> GitBranches] : n \in 0..MaxRes }

\* The kill command is not running, whatever sessions are live.
KillQuiet ==
    /\ args = [session |-> NoSession, all |-> FALSE, force |-> FALSE]
    /\ hint = NoSession
    /\ tracked = [wt |-> 0, pr |-> 0, plan |-> 0]
    /\ live0 = {}
    /\ openPRs = {}
    /\ planFiles = {}
    /\ pc = "idle"
    /\ target_session = NoSession
    /\ session_mode = None
    /\ tracked_worktrees = << >>
    /\ tracked_prs = << >>
    /\ plan_files = << >>
    /\ sessions = << >>
    /\ session_info = << >>
    /\ idx = 0
    /\ i = 0
    /\ prompts = << >>
    /\ calls = << >>
    /\ queries = {}
    /\ out = << >>
    /\ exitCode = -1
    /\ faults = 0

\* The kill command is not running and no session is live.
KillIdle ==
    /\ KillQuiet
    /\ live = {}

killVars == << inputs, live, openPRs, planFiles, locals, sessions,
               session_info, idx, i, prompts, calls, queries, out, pc,
               exitCode, faults >>

\* How one run of the loop of remove_worktrees can end: as `git gtr rm`
\* does, where "notfound" is the FileNotFoundError of line 335 and "raise"
\* any other failure to launch the command (PermissionError, ...).
RemoveRunOutcomes(wts, branch) == GtrRmOutcomes(wts, branch) \cup {"notfound"}

\* Lines 312-336: whether the runs of the loop can end as rs says; a run
\* that raises is the last one, and rs is "raise" from there on.
RECURSIVE ValidRuns(_, _, _)
ValidRuns(wts, bs, rs) ==
    IF bs = << >> THEN TRUE
    ELSE /\ Head(rs) \in RemoveRunOutcomes(wts, Head(bs))
         /\ IF Head(rs) = "raise"
            THEN \A k \in 1..Len(rs) : rs[k] = "raise"
            ELSE ValidRuns(IF Head(rs) = "ok" THEN wts \ {Head(bs)} ELSE wts,
                           Tail(bs), Tail(rs))

\* Whether each branch of the list had no worktree when its run started.
RECURSIVE AbsentBefore(_, _, _)
AbsentBefore(wts, bs, rs) ==
    IF bs = << >> THEN << >>
    ELSE << Head(bs) \notin wts >>
         \o AbsentBefore(IF Head(rs) = "ok" THEN wts \ {Head(bs)} ELSE wts,
                         Tail(bs), Tail(rs))

\* GitService.remove_worktrees: one `git gtr rm` per branch; exit status 0
\* counts as removed, any other status and a FileNotFoundError as failed;
\* any other exception of subprocess.run leaves the loop and the method.
\* attempted lists the branches whose removal command was run or tried,
\* in order; removed and failed are the counters when the method ends.
RECURSIVE remove_worktrees(_, _, _)
remove_worktrees(wts, bs, rs) ==
    IF bs = << >>
    THEN [ raised |-> FALSE, worktrees |-> wts, removed |-> 0, failed |-> 0,
           attempted |-> << >> ]
    ELSE IF Head(rs) = "raise"
    THEN [ raised |-> TRUE, worktrees |-> wts, removed |-> 0, failed |-> 0,
           attempted |-> << Head(bs) >> ]
    ELSE LET ok   == Head(rs) = "ok"
             rest == remove_worktrees(IF ok THEN wts \ {Head(bs)} ELSE wts,
                                      Tail(bs), Tail(rs))
         IN  [ raised    |-> rest.raised,
               worktrees |-> rest.worktrees,
               removed   |-> rest.removed + (IF ok THEN 1 ELSE 0),
               failed    |-> rest.failed + (IF ok THEN 0 ELSE 1),
               attempted |-> << Head(bs) >> \o rest.attempted ]

\* No path (Python's None where a Path is expected).
NoPath == << >>

\* The directory gtr keeps the worktree of a branch in.
WorktreePath(branch) == << "wt", branch[1], branch[2] >>

\* GitService.get_worktree_path: `git gtr go <branch>` prints the path of
\* the worktree, or fails when the branch has none.
get_worktree_path(wts, branch) ==
    IF branch \in wts THEN WorktreePath(branch) ELSE NoPath

\* create_worktree without the lookup of lines 88-96.
create_worktree_NoLookup(wts, created, branch, go, res) ==
    IF res \in {"fail", "raise"}
    THEN [ raised |-> TRUE, issued |-> TRUE, done |-> TRUE, worktrees |-> wts,
           created |-> created, path |-> NoPath ]
    ELSE [ raised |-> FALSE, issued |-> TRUE, done |-> FALSE,
           worktrees |-> wts \cup {branch},
           created |-> Append(created, branch), path |-> NoPath ]

\* GitService.create_worktree, lines 86-118: an existing worktree is
\* returned, and tracked when it was not; else `git gtr new` runs, its
\* failure raises WorktreeError, its success is tracked.  go is how the
\* launch of `git gtr go` ends and res how `git gtr new` ends ("raise": the
\* command cannot be launched, which nothing catches).  issued says whether
\* `git gtr new` was run, done whether the call has ended.
create_worktree(wts, created, branch, go, res) ==
    IF go = "raise"
    THEN [ raised |-> TRUE, issued |-> FALSE, done |-> TRUE, worktrees |-> wts,
           created |-> created, path |-> NoPath ]
    ELSE
    LET existing_path == get_worktree_path(wts, branch) IN
    IF existing_path # NoPath
    THEN [ raised |-> FALSE, issued |-> FALSE, done |-> TRUE,
           worktrees |-> wts,
           created |-> IF \E k \in 1..Len(created) : created[k] = branch
                       THEN created ELSE Append(created, branch),
           path |-> existing_path ]
    ELSE IF res \in {"fail", "raise"}
    THEN [ raised |-> TRUE, issued |-> TRUE, done |-> TRUE, worktrees |-> wts,
           created |-> created, path |-> NoPath ]
    ELSE [ raised |-> FALSE, issued |-> TRUE, done |-> FALSE,
           worktrees |-> wts \cup {branch},
           created |-> Append(created, branch), path |-> NoPath ]

\* GitService.create_worktree, lines 120-127: the path of the new worktree
\* is looked up, and WorktreeError raised when there is none.
create_worktree_path(wts, branch, go) ==
    IF go = "raise" THEN [ raised |-> TRUE, path |-> NoPath ]
    ELSE LET worktree_path == get_worktree_path(wts, branch) IN
         [ raised |-> worktree_path = NoPath, path |-> worktree_path ]

\* The record of a create_worktree call that has ended.
CreateRecord(branch, res, absent, again, raised, path) ==
    [ op |-> "create_worktree", arg |-> << branch >>, res |-> << res >>,
      absent |-> << absent >>, again |-> again, raised |-> raised,
      removed |-> 0, failed |-> 0, path |-> path, attempted |-> << >> ]

\* A call of GitService.create_worktree(branch), up to the end of
\* `git gtr new` (lines 86-118).  The call ends here unless a worktree was
\* created.
GitCreateWorktree ==
    /\ pc = "idle"
    /\ ~creating.active
    /\ \E branch \in GitBranches :
       \E go \in {"ran", "raise"} : \E res \in {"ok", "fail", "raise"} :
         LET r == create_worktree(worktrees, created_worktrees, branch, go,
                                  res)
             again == /\ gitRet.op = "create_worktree"
                      /\ gitRet.arg = << branch >>
         IN /\ ~r.issued => res = "ok"
            /\ worktrees' = r.worktrees
            /\ created_worktrees' = r.created
            /\ worktree_count' =
                  IF r.issued /\ res = "ok"
                  THEN [worktree_count EXCEPT ![branch] = @ + 1]
                  ELSE worktree_count
            /\ IF r.done
               THEN /\ gitRet' = CreateRecord(branch,
                                     IF go = "raise" THEN "unlaunched"
                                     ELSE IF r.issued THEN res
                                     ELSE "existing",
                                     branch \notin worktrees, again, r.raised,
                                     r.path)
                    /\ creating' = NoCreate
               ELSE /\ gitRet' = gitRet
                    /\ creating' = [ active |-> TRUE, arg |-> << branch >>,
                                     again |-> again ]
    /\ UNCHANGED << kanbanVars, boardVars, killVars, branches, depends_on,
                    default_base, base_ref >>

\* The call of create_worktree goes on after `git gtr new` (lines 120-127).
GitCreateWorktreePath ==
    /\ pc = "idle"
    /\ creating.active
    /\ \E go \in {"ran", "raise"} :
         LET branch == creating.arg[1]
             r == create_worktree_path(worktrees, branch, go)
         IN gitRet' = CreateRecord(branch, "ok", TRUE, creating.again,
                                   r.raised, r.path)
    /\ creating' = NoCreate
    /\ UNCHANGED << kanbanVars, boardVars, killVars, branches, depends_on,
                    default_base, base_ref, worktrees, created_worktrees,
                    worktree_count >>

\* One call of GitService.cleanup_worktree(branch).
GitCleanupWorktree ==
    /\ pc = "idle"
    /\ ~creating.active
    /\ \E branch \in GitBranches :
       \E res \in GtrRmOutcomes(worktrees, branch) :
         LET r == cleanup_worktree(worktrees, created_worktrees, branch, res)
         IN /\ worktrees' = r.worktrees
            /\ created_worktrees' = r.created
            /\ gitRet' = [ op |-> "cleanup_worktree",
                           arg |-> << branch >>,
                           res |-> << res >>,
                           absent |-> << branch \notin worktrees >>,
                           again |-> /\ gitRet.op = "cleanup_worktree"
                                     /\ gitRet.arg = << branch >>,
                           raised |-> r.raised,
                           removed |-> 0,
                           failed |-> 0,
                           path |-> << >>,
                           attempted |-> << branch >> ]
            /\ worktree_count' = [ b \in GitBranches |->
                                     IF b \in r.worktrees
                                     THEN worktree_count[b] ELSE 0 ]
    /\ UNCHANGED << kanbanVars, boardVars, killVars, branches, depends_on,
                    default_base, base_ref, creating >>

\* One call of GitService.remove_worktrees(branches).
GitRemoveWorktrees ==
    /\ pc = "idle"
    /\ ~creating.active
    /\ \E bs \in BranchLists :
       \E rs \in [1..Len(bs) -> {"ok", "nonzero", "notfound", "raise"}] :
         LET r == remove_worktrees(worktrees, bs, rs)
         IN /\ ValidRuns(worktrees, bs, rs)
            /\ worktrees' = r.worktrees
            /\ gitRet' = [ op |-> "remove_worktrees",
                           arg |-> bs,
                           res |-> rs,
                           absent |-> AbsentBefore(worktrees, bs, rs),
                           again |-> /\ gitRet.op = "remove_worktrees"
                                     /\ gitRet.arg = bs,
                           raised |-> r.raised,
                           removed |-> r.removed,
                           failed |-> r.failed,
                           path |-> << >>,
                           attempted |-> r.attempted ]
            /\ worktree_count' = [ b \in GitBranches |->
                                     IF b \in r.worktrees
                                     THEN worktree_count[b] ELSE 0 ]
    /\ UNCHANGED << kanbanVars, boardVars, killVars, branches,
                    created_worktrees, depends_on, default_base, base_ref,
                    creating >>

InitGit ==
    /\ KillIdle
    /\ created_worktrees = << >>
    /\ gitRet = NoGitCall
    /\ depends_on = Absent
    /\ default_base = << >>
    /\ base_ref = NotReturned
    /\ BoardIdle
    /\ KanbanIdle
    /\ worktrees \in SUBSET GitBranches
    /\ branches = {}
    /\ worktree_count = [ b \in GitBranches |->
                            IF b \in worktrees THEN 1 ELSE 0 ]
    /\ creating = NoCreate

\* GitService.clean_stale_worktrees(dry_run): one `git gtr clean --yes`,
\* which removes the worktrees it finds stale (which ones is the tool's
\* matter) and prints a line for each, or with --dry-run removes nothing and
\* prints what it would remove; the method returns the number of these
\* lines.  FileNotFoundError gives 0; any other failure to launch the
\* command raises.
clean_stale_worktrees(wts, dry_run, stale, res) ==
    IF res = "raise"
    THEN [ raised |-> TRUE, worktrees |-> wts, cleaned |-> 0 ]
    ELSE IF res = "notfound"
    THEN [ raised |-> FALSE, worktrees |-> wts, cleaned |-> 0 ]
    ELSE [ raised |-> FALSE,
           worktrees |-> IF dry_run THEN wts ELSE wts \ stale,
           cleaned |-> Cardinality(stale) ]

\* One call of GitService.clean_stale_worktrees(dry_run).
GitCleanStaleWorktrees ==
    /\ pc = "idle"
    /\ ~creating.active
    /\ \E dry_run \in BOOLEAN :
       \E stale \in SUBSET worktrees :
       \E res \in {"ran", "notfound", "raise"} :
         LET r == clean_stale_worktrees(worktrees, dry_run, stale, res)
         IN /\ res # "ran" => stale = {}
            /\ worktrees' = r.worktrees
            /\ gitRet' = [ op |-> "clean_stale_worktrees",
                           arg |-> << dry_run >>,
                           res |-> << res >>,
                           absent |-> << >>,
                           again |-> gitRet.op = "clean_stale_worktrees",
                           raised |-> r.raised,
                           removed |-> r.cleaned,
                           failed |-> 0,
                           path |-> << >>,
                           attempted |-> << >> ]
            /\ worktree_count' = [ b \in GitBranches |->
                                     IF b \in r.worktrees
                                     THEN worktree_count[b] ELSE 0 ]
    /\ UNCHANGED << kanbanVars, boardVars, killVars, branches,
                    created_worktrees, depends_on, default_base, base_ref,
                    creating >>

NextGit ==
    \/ GitCleanupWorktree
    \/ GitRemoveWorktrees
    \/ GitCleanStaleWorktrees

SpecGit == InitGit /\ [][NextGit]_vars

\* Any sequence of create_worktree and cleanup_worktree calls.
NextWorktree ==
    \/ GitCreateWorktree
    \/ GitCreateWorktreePath
    \/ GitCleanupWorktree

SpecWorktree == InitGit /\ [][NextWorktree]_vars

\* The last call repeated the one before it, every branch of it had no
\* worktree left, and every removal command ran.
SecondRemovalOfAbsent ==
    /\ gitRet.again
    /\ gitRet.arg # << >>
    /\ \A k \in 1..Len(gitRet.arg) :
          gitRet.absent[k] /\ gitRet.res[k] \in {"ok", "nonzero"}

\* C15: removing a worktree a second time in a row, when it is already
\* absent, does not raise through cleanup_worktree nor through
\* remove_worktrees, and remove_worktrees counts it as removed, not failed.
C15_RemovalIdempotent ==
    SecondRemovalOfAbsent =>
       /\ ~gitRet.raised
       /\ gitRet.op = "remove_worktrees" =>
             (gitRet.removed = Len(gitRet.arg) /\ gitRet.failed = 0)

\* ----------------------------------- GitService.get_branch_dependency_base

\* Longest branch name tried as depends_on.
MaxNameLen == 4

\* A string is the sequence of its characters.
Alphabet == {"n", "N", "o", "O", "e", "E", "m", "-"}

Names == UNION { [1..n -> Alphabet] : n \in 0..MaxNameLen }

\* The default bases tried: "m", "none" and "NONE".
DefaultBases == { << "m" >>, << "n", "o", "n", "e" >>, << "N", "O", "N", "E" >> }

\* str.lower() on one character, and on a string.
LowerChar(c) ==
    CASE c = "N" -> "n"
      [] c = "O" -> "o"
      [] c = "E" -> "e"
      [] c = "Y" -> "y"
      [] OTHER   -> c

lower(s) == [ k \in 1..Len(s) |-> LowerChar(s[k]) ]

\* Lines 207-210 with depends_on compared to "none" as it is written.
get_branch_dependency_base_CaseSensitive(dep, default) ==
    IF ~dep.present \/ dep.s = << "n", "o", "n", "e" >>
    THEN default
    ELSE dep.s

\* Lines 207-210 with the lower-cased name returned.
get_branch_dependency_base_Lowered(dep, default) ==
    IF ~dep.present \/ lower(dep.s) = << "n", "o", "n", "e" >>
    THEN default
    ELSE lower(dep.s)

\* GitService.get_branch_dependency_base(depends_on, default_base).
get_branch_dependency_base(dep, default) ==
    IF ~dep.present \/ lower(dep.s) = << "n", "o", "n", "e" >>
    THEN default
    ELSE dep.s

\* The call is made with any depends_on and default base, whether or not
\* a branch of that name exists.
InitBase ==
    /\ KillIdle
    /\ BoardIdle
    /\ KanbanIdle
    /\ worktrees = {}
    /\ created_worktrees = << >>
    /\ gitRet = NoGitCall
    /\ depends_on \in {Absent} \cup { [present |-> TRUE, s |-> n] : n \in Names }
    /\ default_base \in DefaultBases
    /\ branches \in { {}, {depends_on.s} }
    /\ base_ref = NotReturned
    /\ worktree_count = << >>
    /\ creating = NoCreate

ResolveBase ==
    /\ pc = "idle"
    /\ ~base_ref.returned
    /\ base_ref' = [ returned |-> TRUE,
                     value |-> get_branch_dependency_base(depends_on,
                                                          default_base) ]
    /\ UNCHANGED << kanbanVars, boardVars, killVars, worktrees, branches,
                    created_worktrees, gitRet, depends_on, default_base,
                    worktree_count, creating >>

NextBase == ResolveBase

SpecBase == InitBase /\ [][NextBase]_vars

\* The name is the word none in some letter case.
IsNoneAnyCase(s) ==
    /\ Len(s) = 4
    /\ s[1] \in {"n", "N"}
    /\ s[2] \in {"o", "O"}
    /\ s[3] \in {"n", "N"}
    /\ s[4] \in {"e", "E"}

\* C19: when depends_on is absent or is the word none in any letter case,
\* the value returned is the default base, whatever the default base is.
C19_NoneGivesDefaultBase ==
    (base_ref.returned /\ (~depends_on.present \/ IsNoneAnyCase(depends_on.s)))
       => base_ref.value = default_base

C19_Witness_MixedCaseNone ==
    /\ base_ref.returned
    /\ depends_on.present
    /\ depends_on.s = << "N", "o", "n", "E" >>
    /\ default_base = << "m" >>
    /\ base_ref.value = << "m" >>

\* C20: when depends_on is a name that is not the word none in any letter
\* case, the value returned is that name, character for character, whatever
\* the default base is and whether or not a branch of that name exists.
C20_BranchReturnedUnchanged ==
    (base_ref.returned /\ depends_on.present /\ ~IsNoneAnyCase(depends_on.s))
       => base_ref.value = depends_on.s

C20_Witness_UnknownBranchKept ==
    /\ base_ref.returned
    /\ depends_on.present
    /\ depends_on.s = << "N", "o", "-", "E" >>
    /\ depends_on.s \notin branches
    /\ default_base = << "n", "o", "n", "e" >>
    /\ base_ref.value = depends_on.s

\* ------------------------------------------------- board: vocabulary

\* Largest number of projects on the board.
MaxProjects == 3

\* Largest number of tool-owned tasks a project holds.
MaxTasks == 4

\* Project names, as character sequences: "n", "N" and "no" (one name, the
\* same name in another letter case, and a longer name that contains it).
ProjectNameSet == { << "n" >>, << "N" >>, << "n", "o" >> }

\* The names asked for: "n", "o", "NO" and "e".
Queries == { << "n" >>, << "o" >>, << "N", "O" >>, << "e" >> }

ProjectId(k) == << "p", k >>

\* The project lists the board may hold; the k-th project has id ProjectId(k).
ProjectLists ==
    { << >> }
    \cup UNION { { [ k \in 1..n |-> [id |-> ProjectId(k), name |-> names[k]] ] :
                     names \in [1..n -> ProjectNameSet] } : n \in 1..MaxProjects }

\* Python's `sub in s` on strings.
Contains(sub, s) ==
    \E off \in 0..(Len(s) - Len(sub)) :
        \A k \in 1..Len(sub) : s[off + k] = sub[k]

\* The status buckets of the board, in the order they are queried.
Buckets == << "todo", "in_progress", "completed", "failed" >>

\* The j-th task of project k.  Task 0 is not tool-owned; the others carry
\* the [impl] or the [fix] tag and are spread over the buckets.
BoardTask(k, j, idless) ==
    [ key     |-> << k, j >>,
      project |-> ProjectId(k),
      status  |-> IF j = 0 THEN "todo" ELSE Buckets[((j - 1) % 4) + 1],
      tag     |-> IF j = 0 THEN "none"
                  ELSE IF j % 2 = 1 THEN "[impl]" ELSE "[fix]",
      has_id  |-> ~(idless /\ j = 1) ]

\* The title carries the tool's creation tag.
IsOwned(task) == task.tag \in {"[impl]", "[fix]"}

RECURSIVE SortedByKey(_)
SortedByKey(S) ==
    IF S = {} THEN << >>
    ELSE LET m == CHOOSE s \in S : \A t \in S : s.key[2] <= t.key[2]
         IN  << m >> \o SortedByKey(S \ {m})

\* TaskBoardBackend.list_tasks(project_id, status)
list_tasks(pid, status) ==
    SortedByKey({ t \in boardTasks : t.project = pid /\ t.status = status })

\* VibekanbanService.list_all_smithers_tasks: every bucket is queried and
\* the tasks whose title carries the tag are kept.
list_all_smithers_tasks(pid) ==
    SelectSeq(list_tasks(pid, Buckets[1]) \o list_tasks(pid, Buckets[2])
              \o list_tasks(pid, Buckets[3]) \o list_tasks(pid, Buckets[4]),
              IsOwned)

\* VibekanbanService.delete_task: the tasks left on the board.
delete_task(board, task, ok) == IF ok THEN board \ {task} ELSE board

\* The values SMITHERS_VIBEKANBAN_ENABLED is tried with: "1", "0", "Yes" and
\* "on"; NoName is the variable not set.
EnabledWords == { << "1" >>, << "0" >>, << "Y", "e", "s" >>, << "o", "n" >> }

\* load_vibekanban_config(): the enabled flag is the file's (False when the
\* file has none) unless the environment variable is set, and then whether
\* its lower-cased value is "1", "true" or "yes"; for the project id the
\* environment overrides the file.
load_vibekanban_config ==
    [ enabled    |-> IF cfg.enabled_env # NoName
                     THEN lower(cfg.enabled_env)
                             \in { << "1" >>, << "t", "r", "u", "e" >>,
                                   << "y", "e", "s" >> }
                     ELSE cfg.enabled_file,
      project_id |-> IF cfg.env # NoProject THEN cfg.env ELSE cfg.file ]

\* VibekanbanService(enabled=True).project_id: the dataclass default.
ConstructedProjectId == NoProject

\* VibekanbanService.is_configured: enabled, and with a project id.
is_configured(enabled, pid) == enabled /\ pid # NoProject

\* ------------------------------------------------- project resolution

\* Lines 127-128 of cleanup.py, 55-56 of projects.py: the projects whose
\* name contains the queried name, letter case aside.
SubstringMatches(name, pl) ==
    SelectSeq(pl, LAMBDA p : Contains(lower(name), lower(p.name)))

\* Lines 139 of cleanup.py, 67 of projects.py: the matches whose name is the
\* queried name, letter case aside.
ExactMatches(name, ms) ==
    SelectSeq(ms, LAMBDA p : lower(p.name) = lower(name))

Found(p) == [id |-> p.id, error |-> None, listed |-> << >>]

Failed(error, listed) == [id |-> NoProject, error |-> error, listed |-> listed]

\* _resolve_project_by_name with several matches always ambiguous.
resolve_project_by_name_NoExactPreference(name, pl) ==
    IF pl = << >> THEN Failed("no_projects", << >>)
    ELSE LET ms == SubstringMatches(name, pl) IN
         IF ms = << >> THEN Failed("no_match", pl)
         ELSE IF Len(ms) > 1 THEN Failed("ambiguous", ms)
         ELSE Found(ms[1])

\* cleanup.py, _resolve_project_by_name (115-152): the project id, or the
\* reason there is none and the projects listed with it.
resolve_project_by_name(name, pl) ==
    IF pl = << >> THEN Failed("no_projects", << >>)
    ELSE LET ms == SubstringMatches(name, pl)
             ex == ExactMatches(name, ms)
         IN  IF ms = << >> THEN Failed("no_match", pl)
             ELSE IF Len(ms) > 1
             THEN IF Len(ex) = 1 THEN Found(ex[1])
                  ELSE Failed("ambiguous", ms)
             ELSE Found(ms[1])

\* _set_project taking the first of several matches.
set_project_FirstMatch(name, pl) ==
    LET ms == SubstringMatches(name, pl)
    IN  IF ms = << >> THEN Failed("no_match", pl) ELSE Found(ms[1])

\* projects.py, _set_project (52-80): the project to save, or the reason
\* there is none and the projects listed with it.
set_project(name, pl) ==
    LET ms == SubstringMatches(name, pl)
        ex == ExactMatches(name, ms)
    IN  IF ms = << >> THEN Failed("no_match", pl)
        ELSE IF Len(ms) > 1
        THEN IF Len(ex) = 1 THEN Found(ex[1])
             ELSE Failed("ambiguous", ms)
        ELSE Found(ms[1])

\* The lines printed with a failed resolution.
ResolutionLines(r) ==
    << << r.error, NoProject >> >>
    \o [ k \in 1..Len(r.listed) |-> << "project_name", r.listed[k].id >> ]

\* ------------------------------------------------------- cleanup command

\* What the board commands leave alone.
boardOthers == << kanbanVars, gitVars, inputs, world, locals, sessions,
                  session_info, idx, queries, faults, serviceRet >>

BoardCall(op, arg, res) == Call(op, NoSession, arg, res)

\* The statuses in the order sorted() puts them.
SortedStatuses == << "completed", "failed", "in_progress", "todo" >>

\* Lines 74-80 with every task printed under every header.
GroupLines_Ungrouped(ts, status) ==
    IF SelectSeq(ts, LAMBDA t : t.status = status) = << >> THEN << >>
    ELSE << << "status", status >> >>
         \o [ k \in 1..Len(ts) |-> << "task", ts[k].key >> ]

\* Lines 74-80: the tasks of one status, under their header.
GroupLines(ts, status) ==
    LET g == SelectSeq(ts, LAMBDA t : t.status = status)
    IN  IF g = << >> THEN << >>
        ELSE << << "status", status >> >>
             \o [ k \in 1..Len(g) |-> << "task", g[k].key >> ]

\* Lines 63-80: the listing of what will be deleted.
GroupedListing(ts) ==
    GroupLines(ts, SortedStatuses[1]) \o GroupLines(ts, SortedStatuses[2])
    \o GroupLines(ts, SortedStatuses[3]) \o GroupLines(ts, SortedStatuses[4])

\* Lines 83-87 with the answer ignored.
DeleteGate_Open(force, confirm) == TRUE

\* Lines 83-87: whether cleanup() goes on to delete.
DeleteGate(force, confirm) == force \/ confirm

\* Lines 94-106 with the loop left at the first failed delete.
DeleteLoopNext_Abort(ok) ==
    IF ok /\ i < Len(tasks)
    THEN /\ i' = i + 1
         /\ pc' = pc
    ELSE /\ i' = i + 1
         /\ pc' = "cl_report"

\* Lines 94-106: the for loop goes on to the next task, whatever happened.
DeleteLoopNext(ok) ==
    IF i < Len(tasks)
    THEN /\ i' = i + 1
         /\ pc' = pc
    ELSE /\ i' = i + 1
         /\ pc' = "cl_report"

\* cleanup(), lines 36-53: the project the command works on.
CleanupResolve ==
    /\ pc = "idle"
    /\ cmd.name = "cleanup"
    /\ IF cmd.project # NoName
       THEN LET r == resolve_project_by_name(cmd.project, project_list) IN
            /\ calls' = Append(calls, BoardCall("list_projects", NoProject, "ok"))
            /\ IF r.id = NoProject
               THEN /\ out' = out \o ResolutionLines(r)
                    /\ project_id' = ConstructedProjectId
                    /\ Exit(1)
               ELSE /\ out' = Append(out, << "project", r.id >>)
                    /\ project_id' = r.id
                    /\ pc' = "cl_scan"
                    /\ exitCode' = exitCode
       ELSE IF ConstructedProjectId = NoProject
       THEN \E found \in {NoProject} \cup { project_list[k].id : k \in 1..Len(project_list) } :
              /\ calls' = Append(calls, BoardCall("auto_discover_project_id",
                                                  found, "ok"))
              /\ project_id' = found
              /\ IF is_configured(TRUE, found)
                 THEN /\ out' = out
                      /\ pc' = "cl_scan"
                      /\ exitCode' = exitCode
                 ELSE /\ out' = Append(out, << "not_configured", NoProject >>)
                      /\ Exit(1)
       ELSE /\ calls' = calls
            /\ project_id' = ConstructedProjectId
            /\ out' = out
            /\ pc' = "cl_scan"
            /\ exitCode' = exitCode
    /\ UNCHANGED << boardOthers, prompts, i, cmd, project_list, boardTasks, cfg,
                    tasks, tally >>

\* cleanup(), lines 55-80: find the tool-owned tasks and list them.
CleanupScan ==
    /\ pc = "cl_scan"
    /\ LET ts == list_all_smithers_tasks(project_id) IN
       /\ tasks' = ts
       /\ calls' = Append(calls, BoardCall("list_all_smithers_tasks",
                                           project_id, "ok"))
       /\ IF ts = << >>
          THEN /\ out' = Append(out, << "no_tasks", NoProject >>)
               /\ Exit(0)
          ELSE /\ out' = out \o << << "found", Len(ts) >> >> \o GroupedListing(ts)
               /\ pc' = "cl_confirm"
               /\ exitCode' = exitCode
    /\ UNCHANGED << boardOthers, prompts, i, cmd, project_list, boardTasks, cfg,
                    project_id, tally >>

\* cleanup(), lines 82-92: confirm unless --force.
CleanupConfirm ==
    /\ pc = "cl_confirm"
    /\ \/ /\ cmd.force
          /\ prompts' = prompts
          /\ out' = out
          /\ pc' = "cl_delete"
          /\ i' = 1
          /\ exitCode' = exitCode
       \/ /\ ~cmd.force
          /\ \E confirm \in BOOLEAN :
               /\ prompts' = Append(prompts, [about |-> tasks, answer |-> confirm])
               /\ IF DeleteGate(cmd.force, confirm)
                  THEN /\ out' = out
                       /\ pc' = "cl_delete"
                       /\ i' = 1
                       /\ exitCode' = exitCode
                  ELSE /\ out' = Append(out, << "cancelled", NoProject >>)
                       /\ i' = i
                       /\ Exit(0)
    /\ UNCHANGED << boardOthers, calls, boardVars >>

\* cleanup(), lines 94-106: one iteration of the delete loop.
CleanupDeleteStep ==
    /\ pc = "cl_delete"
    /\ LET task == tasks[i] IN
       IF ~task.has_id
       THEN /\ DeleteLoopNext(TRUE)
            /\ UNCHANGED << boardTasks, calls, out, tally >>
       ELSE \E ok \in BOOLEAN :
              /\ boardTasks' = delete_task(boardTasks, task, ok)
              /\ calls' = Append(calls, BoardCall("delete_task", task.key,
                                                  IF ok THEN "ok" ELSE "fail"))
              /\ out' = Append(out, IF ok THEN << "deleted_task", task.key >>
                                    ELSE << "failed_task", task.key >>)
              /\ tally' = IF ok THEN [tally EXCEPT !.deleted = @ + 1]
                          ELSE [tally EXCEPT !.failed = @ + 1]
              /\ DeleteLoopNext(ok)
    /\ UNCHANGED << boardOthers, prompts, exitCode, cmd, project_list, cfg,
                    project_id, tasks >>

\* cleanup(), lines 108-112: the totals.
CleanupReport ==
    /\ pc = "cl_report"
    /\ out' = out
              \o (IF tally.deleted > 0
                  THEN << << "deleted_count", tally.deleted >> >> ELSE << >>)
              \o (IF tally.failed > 0
                  THEN << << "failed_count", tally.failed >> >> ELSE << >>)
    /\ Exit(0)
    /\ UNCHANGED << boardOthers, prompts, calls, i, boardVars >>

\* ------------------------------------------------------ projects command

\* _list_projects (90-101): one line per project, the active one marked.
ProjectListing ==
    [ k \in 1..Len(project_list) |->
        << IF project_list[k].id = load_vibekanban_config.project_id
           THEN "project_active" ELSE "project_line",
           project_list[k].id >> ]

\* projects(), lines 28-87: list the projects, or set the active one.
ProjectsRun ==
    /\ pc = "idle"
    /\ cmd.name = "projects"
    /\ IF project_list = << >>
       THEN /\ calls' = Append(calls, BoardCall("list_projects", NoProject, "ok"))
            /\ out' = Append(out, << "no_projects", NoProject >>)
            /\ cfg' = cfg
            /\ Exit(0)
       ELSE IF cmd.project = NoName
       THEN /\ calls' = Append(calls, BoardCall("list_projects", NoProject, "ok"))
            /\ out' = out \o ProjectListing
            /\ cfg' = cfg
            /\ Exit(0)
       ELSE LET r == set_project(cmd.project, project_list) IN
            IF r.id = NoProject
            THEN /\ calls' = Append(calls, BoardCall("list_projects", NoProject, "ok"))
                 /\ out' = out \o ResolutionLines(r)
                 /\ cfg' = cfg
                 /\ Exit(1)
            ELSE \E saved \in BOOLEAN :
                   /\ calls' = calls
                        \o << BoardCall("list_projects", NoProject, "ok"),
                              BoardCall("save_vibekanban_project_id", r.id,
                                        IF saved THEN "ok" ELSE "fail") >>
                   /\ IF saved
                      THEN /\ cfg' = [cfg EXCEPT !.file = r.id]
                           /\ out' = Append(out, << "set_active", r.id >>)
                           /\ Exit(0)
                      ELSE /\ cfg' = cfg
                           /\ out' = Append(out, << "save_failed", NoProject >>)
                           /\ Exit(1)
    /\ UNCHANGED << boardOthers, prompts, i, cmd, project_list, boardTasks,
                    project_id, tasks, tally >>

\* ------------------------------------- VibekanbanService called by itself

\* The service methods a behaviour may consist of instead of a command.
ServiceCalls == {"create_task", "update_task_status"}

\* The title tags tasks are created with; "none" is an untagged title.
TitleTags == {"[impl]", "[fix]", "none"}

\* The statuses update_task_status is given: the buckets, and one that is
\* no bucket of the board.
Statuses == {"todo", "in_progress", "completed", "failed", "archived"}

\* The id the board gives the next task of a project.
NextTaskKey(board, pid) ==
    LET js == { t.key[2] : t \in { u \in board : u.project = pid } }
    IN  << pid[2], IF js = {} THEN 1
                   ELSE 1 + (CHOOSE j \in js : \A h \in js : h <= j) >>

\* VibekanbanService.create_task (75-113): nothing is called on a service
\* that is not configured; else the create_task tool is called, and the id
\* of its answer is returned, or None when the answer has no id or the call
\* raised.  added says whether the board holds the task afterwards.
create_task(board, enabled, pid, tag, res, added) ==
    IF ~is_configured(enabled, pid)
    THEN [ called |-> FALSE, ret |-> NoTask, board |-> board ]
    ELSE LET task == [ key     |-> NextTaskKey(board, pid),
                       project |-> pid,
                       status  |-> "todo",
                       tag     |-> tag,
                       has_id  |-> TRUE ]
         IN  [ called |-> TRUE,
               ret    |-> IF res = "ok" THEN task.key ELSE NoTask,
               board  |-> IF added THEN board \cup {task} ELSE board ]

\* VibekanbanService.update_task_status (115-145): False without a call
\* when the service is not configured or the id is empty; else the
\* update_task tool is called, True is returned when it did not raise, and
\* the task of that id, if there is one, has the status.
update_task_status(board, enabled, pid, task_id, status, res) ==
    IF ~is_configured(enabled, pid) \/ task_id = NoTask
    THEN [ called |-> FALSE, ret |-> FALSE, board |-> board ]
    ELSE IF res = "raise"
    THEN [ called |-> TRUE, ret |-> FALSE, board |-> board ]
    ELSE [ called |-> TRUE, ret |-> TRUE,
           board |-> { IF t.has_id /\ t.key = task_id
                       THEN [t EXCEPT !.status = status] ELSE t :
                       t \in board } ]

\* What a service call made by itself leaves alone.
serviceOthers == << kanbanVars, gitVars, inputs, world, locals, sessions,
                    session_info, idx, queries, faults, prompts, out, i,
                    exitCode, cmd, project_list, cfg, tasks, tally >>

\* One call of create_task on the service create_vibekanban_service()
\* builds (177-191): its project and its enabled flag are the configured
\* ones.
ServiceCreateTask ==
    /\ pc = "idle"
    /\ cmd.name = "create_task"
    /\ \E tag \in TitleTags : \E res \in {"ok", "noid", "raise"} :
       \E added \in BOOLEAN :
         LET config == load_vibekanban_config
             r == create_task(boardTasks, config.enabled, config.project_id,
                              tag, res, added)
         IN /\ res = "ok" => added
            /\ ~r.called => (res = "ok" /\ tag = "none")
            /\ project_id' = config.project_id
            /\ boardTasks' = r.board
            /\ calls' = IF r.called
                        THEN Append(calls, BoardCall("create_task", r.ret, res))
                        ELSE calls
            /\ serviceRet' = [ op |-> "create_task", called |-> r.called,
                               ret |-> r.ret ]
    /\ pc' = "done"
    /\ UNCHANGED serviceOthers

\* One call of update_task_status on that service.
ServiceUpdateTaskStatus ==
    /\ pc = "idle"
    /\ cmd.name = "update_task_status"
    /\ \E task_id \in { t.key : t \in { u \in boardTasks : u.has_id } }
                       \cup {NoTask, << 1, MaxTasks + 1 >>} :
       \E status \in Statuses : \E res \in {"ok", "raise"} :
         LET config == load_vibekanban_config
             r == update_task_status(boardTasks, config.enabled,
                                     config.project_id, task_id, status, res)
         IN /\ ~r.called => res = "ok"
            /\ project_id' = config.project_id
            /\ boardTasks' = r.board
            /\ calls' = IF r.called
                        THEN Append(calls, BoardCall("update_task", task_id,
                                                    res))
                        ELSE calls
            /\ serviceRet' = [ op |-> "update_task_status",
                               called |-> r.called, ret |-> r.ret ]
    /\ pc' = "done"
    /\ UNCHANGED serviceOthers

\* -------------------------------------------------------------- SpecBoard

InitBoard ==
    /\ KillIdle
    /\ GitIdle
    /\ KanbanIdle
    /\ worktrees = {}
    /\ branches = {}
    /\ cmd \in [name : {"cleanup", "projects", "create_task",
                        "update_task_status"},
                project : Queries \cup {NoName}, force : BOOLEAN]
    /\ cmd.name = "projects" => ~cmd.force
    /\ cmd.name \in ServiceCalls => (cmd.project = NoName /\ ~cmd.force)
    /\ project_list \in ProjectLists
    /\ \E n \in {0, MaxTasks} : \E idless \in BOOLEAN :
          /\ idless => n > 0
          /\ boardTasks = { BoardTask(k, j, idless) :
                              k \in 1..Len(project_list), j \in 0..n }
    /\ cfg \in [file : {NoProject, ProjectId(2)}, env : {NoProject, ProjectId(1)},
                enabled_file : BOOLEAN, enabled_env : EnabledWords \cup {NoName}]
    \* cleanup and projects build VibekanbanService(enabled=True) and read no
    \* enabled flag; the flag is varied for the calls that read it.
    /\ cmd.name \notin ServiceCalls
          => (~cfg.enabled_file /\ cfg.enabled_env = NoName)
    /\ project_id = NoProject
    /\ tasks = << >>
    /\ tally = [deleted |-> 0, failed |-> 0]
    /\ serviceRet = NoServiceCall

NextBoard ==
    \/ CleanupResolve
    \/ CleanupScan
    \/ CleanupConfirm
    \/ CleanupDeleteStep
    \/ CleanupReport
    \/ ProjectsRun
    \/ ServiceCreateTask
    \/ ServiceUpdateTaskStatus

SpecBoard == InitBoard /\ [][NextBoard]_vars

\* ----------------------------------------------------- board: claims

\* The positions of the projects whose name contains the queried name, and
\* of those whose name is the queried name, letter case aside.
MatchSet ==
    { k \in 1..Len(project_list) :
        Contains(lower(cmd.project), lower(project_list[k].name)) }

ExactSet ==
    { k \in 1..Len(project_list) :
        lower(project_list[k].name) = lower(cmd.project) }

SaveCalls ==
    SelectSeq(calls, LAMBDA c : c.op = "save_vibekanban_project_id")

\* C21: when several projects contain the queried name and exactly one of
\* them equals it, letter case aside, that project is the one resolved:
\* cleanup works on its id, and projects saves its id as the active project.
C21_ExactMatchPreferred ==
    ( /\ pc # "idle"
      /\ cmd.project # NoName
      /\ Cardinality(MatchSet) > 1
      /\ Cardinality(ExactSet) = 1 )
    => LET e == ProjectId(CHOOSE k \in ExactSet : TRUE) IN
       /\ cmd.name = "cleanup" => project_id = e
       /\ cmd.name = "projects" =>
             /\ Len(SaveCalls) = 1
             /\ SaveCalls[1].arg = e
             /\ SaveCalls[1].res = "ok" => (cfg.file = e /\ exitCode = 0)

C21_Witness_ExactAmongPartial ==
    /\ cmd.name = "cleanup"
    /\ cmd.project = << "n" >>
    /\ Len(project_list) = 2
    /\ project_list[1].name = << "n", "o" >>
    /\ project_list[2].name = << "n" >>
    /\ pc = "done"
    /\ project_id = ProjectId(2)
    /\ exitCode = 0

\* The queried name matches no project, or several of which not exactly
\* one equals it, letter case aside.
ResolutionFails ==
    /\ cmd.project # NoName
    /\ \/ MatchSet = {}
       \/ Cardinality(MatchSet) > 1 /\ Cardinality(ExactSet) # 1

\* Nothing was resolved, saved, scanned, asked or deleted.
NoBoardSideEffect ==
    /\ project_id = NoProject
    /\ SaveCalls = << >>
    /\ \A k \in 1..Len(calls) :
          calls[k].op \notin {"list_all_smithers_tasks", "delete_task"}
    /\ tasks = << >>
    /\ tally = [deleted |-> 0, failed |-> 0]
    /\ prompts = << >>
    /\ \A k \in 1..Len(project_list) : \E t \in boardTasks : t.key = << k, 0 >>

\* C22: whenever the queried name matches zero projects, or several without
\* exactly one exact match, cleanup and projects end with exit status 1, no
\* project resolved, nothing saved, no task scanned or deleted.
C22_ResolutionFailureExitsOne ==
    (pc # "idle" /\ ResolutionFails)
       => (pc = "done" /\ exitCode = 1 /\ NoBoardSideEffect)

\* The tasks cleanup found, as a set.
Discovered == { tasks[k] : k \in 1..Len(tasks) }

\* Whether cleanup has scanned the board.
Scanned ==
    \E k \in 1..Len(calls) : calls[k].op = "list_all_smithers_tasks"

\* The status header a listed task stands under: the last one before it.
HeaderOf(k) ==
    LET hs == { h \in 1..(k - 1) : out[h][1] = "status" }
    IN  IF hs = {} THEN "none"
        ELSE out[CHOOSE h \in hs : \A g \in hs : g <= h][2]

\* Every discovered task is listed once, under the header of its status,
\* and no status has two headers.
ListedByStatus ==
    /\ \A t \in Discovered :
          Cardinality({ k \in 1..Len(out) :
                          out[k] = << "task", t.key >> }) = 1
    /\ \A k \in 1..Len(out) :
          out[k][1] = "task"
             => \E t \in Discovered : t.key = out[k][2] /\ t.status = HeaderOf(k)
    /\ \A h, g \in 1..Len(out) :
          (out[h][1] = "status" /\ out[g][1] = "status" /\ out[h][2] = out[g][2])
             => h = g

\* C23: once cleanup has scanned, the tasks it offers are exactly the
\* tagged tasks of its project, in whatever status bucket; every task it
\* deletes is one of them, so the untagged task of every project stays on
\* the board; and the listing shows each offered task under its status.
C23_OnlyOwnedTasksOffered ==
    (cmd.name = "cleanup" /\ Scanned)
       => /\ Discovered = { t \in boardTasks \cup Discovered :
                               t.project = project_id /\ IsOwned(t) }
          /\ \A k \in 1..Len(calls) :
                calls[k].op = "delete_task"
                   => \E t \in Discovered : t.key = calls[k].arg
          /\ \A k \in 1..Len(project_list) :
                \E t \in boardTasks : t.key = << k, 0 >> /\ ~IsOwned(t)
          /\ \A t \in boardTasks \cup Discovered :
                t.project # project_id => t \in boardTasks
          /\ Discovered # {} => ListedByStatus

C23_Witness_FourBucketsDeleted ==
    /\ cmd.name = "cleanup"
    /\ pc = "done"
    /\ Len(project_list) > 1
    /\ { t.status : t \in Discovered } = { Buckets[k] : k \in 1..4 }
    /\ { t.tag : t \in Discovered } = {"[impl]", "[fix]"}
    /\ tally.deleted = Len(tasks)
    /\ \E t \in boardTasks : t.project = project_id /\ ~IsOwned(t)
    /\ \A t \in boardTasks : t.project = project_id => ~IsOwned(t)

\* The delete attempts made so far, in the order they were made.
DeleteCalls == SelectSeq(calls, LAMBDA c : c.op = "delete_task")

\* The user let cleanup go on to delete: --force, or a yes.
Proceeded ==
    /\ tasks # << >>
    /\ \/ cmd.force
       \/ prompts # << >> /\ prompts[Len(prompts)].answer

\* How many discovered tasks the delete loop has gone through.
LoopDone ==
    IF pc = "cl_delete" THEN i - 1
    ELSE IF pc = "cl_report" \/ (pc = "done" /\ Proceeded) THEN Len(tasks)
    ELSE 0

\* The discovered tasks among the first n that have an id.
WithId(n) == SelectSeq(SubSeq(tasks, 1, n), LAMBDA t : t.has_id)

\* C24: the delete attempts are, one for one and in list order, the
\* discovered tasks with an id that the loop has gone through, whatever the
\* earlier attempts gave; deleted counts the successful attempts and failed
\* the others; and once the loop is over every discovered task with an id
\* has had its attempt, so deleted + failed is their number.
C24_DeleteLoopContinues ==
    cmd.name = "cleanup"
       => /\ Len(DeleteCalls) = Len(WithId(LoopDone))
          /\ \A k \in 1..Len(DeleteCalls) :
                DeleteCalls[k].arg = WithId(LoopDone)[k].key
          /\ tally.deleted
                = Cardinality({ k \in 1..Len(DeleteCalls) :
                                   DeleteCalls[k].res = "ok" })
          /\ tally.failed
                = Cardinality({ k \in 1..Len(DeleteCalls) :
                                   DeleteCalls[k].res = "fail" })
          /\ (pc \in {"cl_report", "done"} /\ Proceeded)
                => tally.deleted + tally.failed = Len(WithId(Len(tasks)))

C24_Witness_FailureThenSuccess ==
    /\ cmd.name = "cleanup"
    /\ pc = "done"
    /\ Len(tasks) = MaxTasks
    /\ ~tasks[1].has_id
    /\ Len(DeleteCalls) = MaxTasks - 1
    /\ DeleteCalls[1].res = "fail"
    /\ DeleteCalls[2].res = "ok"
    /\ DeleteCalls[Len(DeleteCalls)].res = "ok"
    /\ tally.failed = 1
    /\ tally.deleted = MaxTasks - 2

\* C25: cleanup makes a delete attempt, and a task leaves the board, only
\* after --force or a yes to the one confirmation, which is asked about the
\* tasks found; after a no the command is over with exit status 0, not one
\* attempt made and the found tasks all on the board; and with no tagged
\* task found it is over with neither a prompt nor an attempt.
C25_ConfirmBeforeDelete ==
    cmd.name = "cleanup"
       => /\ (DeleteCalls # << >> \/ ~(Discovered \subseteq boardTasks)
                 \/ pc \in {"cl_delete", "cl_report"})
                => Proceeded
          /\ Len(prompts) <= 1
          /\ cmd.force => prompts = << >>
          /\ \A k \in 1..Len(prompts) :
                prompts[k].about = tasks /\ tasks # << >>
          /\ (prompts # << >> /\ ~prompts[1].answer)
                => /\ pc = "done"
                   /\ exitCode = 0
                   /\ DeleteCalls = << >>
                   /\ Discovered \subseteq boardTasks
          /\ (Scanned /\ tasks = << >>)
                => /\ pc = "done"
                   /\ exitCode = 0
                   /\ prompts = << >>
                   /\ DeleteCalls = << >>
          /\ (pc \in {"cl_delete", "cl_report"} /\ ~cmd.force)
                => prompts # << >>

C25_Witness_DeclinedKeepsTasks ==
    /\ cmd.name = "cleanup"
    /\ ~cmd.force
    /\ Len(tasks) = MaxTasks
    /\ prompts # << >>
    /\ ~prompts[1].answer
    /\ pc = "done"
    /\ exitCode = 0
    /\ Discovered \subseteq boardTasks

\* C26: whatever create_worktree and cleanup_worktree calls were made, no
\* branch has more than one worktree; a create_worktree
\* on a branch that has a worktree (its lookup having run) runs no
\* `git gtr new`, does not raise and
\* returns the path of that worktree, which stays the only one; and
\* `git gtr new` is only ever run for a branch without a worktree.
C26_OneWorktreePerBranch ==
    /\ \A b \in GitBranches : worktree_count[b] <= 1
    /\ \A b \in GitBranches : b \in worktrees <=> worktree_count[b] = 1
    /\ gitRet.op = "create_worktree"
          => LET branch == gitRet.arg[1] IN
             /\ (~gitRet.absent[1] /\ gitRet.res # << "unlaunched" >>)
                   => /\ gitRet.res = << "existing" >>
                      /\ ~gitRet.raised
                      /\ gitRet.path = WorktreePath(branch)
                      /\ worktree_count[branch] = 1
             /\ gitRet.res[1] \in {"ok", "fail", "raise"} => gitRet.absent[1]

C26_Witness_CreateTwice ==
    /\ gitRet.op = "create_worktree"
    /\ gitRet.again
    /\ ~gitRet.absent[1]
    /\ gitRet.res = << "existing" >>
    /\ gitRet.path = WorktreePath(gitRet.arg[1])
    /\ created_worktrees = << gitRet.arg[1] >>
    /\ worktrees = { gitRet.arg[1] }

\* ------------------------------------------------------- kanban commands

\* The tmux session vibe-kanban runs in.
VIBEKANBAN_SESSION_NAME == << "smithers-vibekanban", 4 >>

\* What a step of a kanban command did: where the command goes on ("end":
\* it has ended), whether the vibe-kanban session runs after the step, the
\* commands and checks the step issued with their outcome, and for a
\* command that has ended its exit status and whether it ended by an
\* uncaught exception.
KanbanResult(next, running, ops, exit, raised) ==
    [ next |-> next, running |-> running, ops |-> ops, exit |-> exit,
      raised |-> raised ]

\* The step leaves the command at another place, having issued ops.
KanbanGoesOn(next, running, ops) == KanbanResult(next, running, ops, 0, FALSE)

\* start() without the check of lines 50-52.
start_which_NoNpxCheck(running, npx_found) ==
    KanbanGoesOn("start_exists", running, << >>)

\* start(), lines 50-52: npx is required before anything is done.
start_which(running, npx_found) ==
    IF ~npx_found THEN KanbanResult("end", running, << >>, 1, FALSE)
    ELSE KanbanGoesOn("start_exists", running, << >>)

\* start() without the check of lines 56-62.
start_exists_NoRunningCheck(running) ==
    KanbanGoesOn("start_create", running, << >>)

\* start(), lines 54-62: a running session is left alone.
start_exists(running) ==
    IF running THEN KanbanResult("end", TRUE, << >>, 0, FALSE)
    ELSE KanbanGoesOn("start_create", FALSE, << >>)

\* How the read of config.port (line 73) can end: VibekanbanConfig
\* (config_loader.py 15-20) has the fields enabled and project_id and no
\* port, so the read raises AttributeError.
PortRead == {"raise"}

\* start(), lines 64-110: tmux is checked, the port is read from the
\* configuration, and the detached session is created.  A failed check and
\* a tmux that exits non-zero end the command with status 1; the error of
\* the port read, and a tmux that cannot be launched, leave it uncaught.
StartSession(running, deps, port, created) ==
    IF deps = "raise"
    THEN KanbanResult("end", running,
                      << << "ensure_dependencies", "raise" >> >>, 1, FALSE)
    ELSE IF port = "raise" \/ created = "raise"
    THEN KanbanResult("end", running,
                      << << "ensure_dependencies", "ok" >> >>, 1, TRUE)
    ELSE IF created = "fail"
    THEN KanbanResult("end", running,
                      << << "ensure_dependencies", "ok" >>,
                         << "new_session", "fail" >> >>, 1, FALSE)
    ELSE KanbanResult("end", TRUE,
                      << << "ensure_dependencies", "ok" >>,
                         << "new_session", "ok" >> >>, 0, FALSE)

\* kill() without the check of lines 118-120.
kill_exists_Unchecked(running) ==
    KanbanGoesOn("kill_session", running, << >>)

\* kill(), lines 116-120: nothing to do when the session does not exist.
kill_exists(running) ==
    IF ~running THEN KanbanResult("end", FALSE, << >>, 0, FALSE)
    ELSE KanbanGoesOn("kill_session", TRUE, << >>)

\* kill(), lines 122-124: kill_session, outside any try.
kill_stop(running, killed) ==
    IF killed = "raise"
    THEN KanbanResult("end", running,
                      << << "kill_session", "raise" >> >>, 1, TRUE)
    ELSE KanbanResult("end", FALSE, << << "kill_session", "ok" >> >>, 0,
                      FALSE)

\* update(), lines 133-135: npx is required before anything is done.
update_which(running, npx_found) ==
    IF ~npx_found THEN KanbanResult("end", running, << >>, 1, FALSE)
    ELSE KanbanGoesOn("update_exists", running, << >>)

\* update(), lines 137-141: was_running; a running session is to be
\* stopped.
update_exists(running) ==
    KanbanGoesOn(IF running THEN "update_kill" ELSE "update_version",
                 running, << >>)

\* update(), lines 142-143: kill_session, outside any try.
update_kill(running, killed) ==
    IF killed = "raise"
    THEN KanbanResult("end", running,
                      << << "kill_session", "raise" >> >>, 1, TRUE)
    ELSE KanbanGoesOn("update_version", FALSE,
                      << << "kill_session", "ok" >> >>)

\* update(), lines 167-170: start() is called when the session was running.
update_restart(was_running) ==
    IF was_running THEN "start_which" ELSE "end"

\* update(), lines 145-170: the latest version is fetched; a timeout is only
\* warned about, an npx that cannot be launched leaves the command
\* uncaught.  Then the restart, if the session was running.
update_version(running, was_running, version) ==
    IF version = "raise"
    THEN KanbanResult("end", running, << >>, 1, TRUE)
    ELSE KanbanResult(update_restart(was_running), running,
                      << << "npx_version", version >> >>, 0, FALSE)

\* What the kanban commands leave alone.
kanbanOthers == << boardVars, gitVars, inputs, openPRs, planFiles, worktrees,
                   branches, locals, sessions, session_info, idx, i, prompts,
                   calls, queries, out, pc, exitCode, faults >>

\* The number of vibe-kanban sessions after the commands issued:
\* kill_session ends what runs under the name, a successful
\* `tmux new-session` adds one.
RECURSIVE SessionsAfter(_, _)
SessionsAfter(n, ops) ==
    IF ops = << >> THEN n
    ELSE SessionsAfter(
            IF Head(ops) = << "kill_session", "ok" >> THEN 0
            ELSE IF Head(ops) = << "new_session", "ok" >> THEN n + 1
            ELSE n,
            Tail(ops))

\* The sessions after a step of a command.
SessionsLeft(running) ==
    IF running THEN live \cup {VIBEKANBAN_SESSION_NAME}
    ELSE live \ {VIBEKANBAN_SESSION_NAME}

\* The record of a command that has ended.
KanbanRecord(name, before, ops, exit, raised) ==
    [ cmd            |-> name,
      running_before |-> before,
      ops            |-> ops,
      exit           |-> exit,
      raised         |-> raised,
      again          |-> /\ kanbanRet.cmd = name
                         /\ kanbanRet.exit = 0 ]

\* The state a step r of the command `name` run in terminal t leaves:
\* the session, and either the place the command is at or the record of
\* the command that has ended.  before is whether the command found the
\* session running.
KanbanDone(t, name, before, r) ==
    /\ live' = SessionsLeft(r.running)
    /\ vibekanban_sessions' = SessionsAfter(vibekanban_sessions, r.ops)
    /\ IF r.next = "end"
       THEN /\ terminal' = [terminal EXCEPT ![t] = NoCommand]
            /\ kanbanRet' = KanbanRecord(name, before,
                                         terminal[t].ops \o r.ops, r.exit,
                                         r.raised)
       ELSE /\ terminal' = [terminal EXCEPT ![t] =
                               [ cmd |-> name, at |-> r.next,
                                 before |-> before,
                                 ops |-> terminal[t].ops \o r.ops ]]
            /\ kanbanRet' = kanbanRet
    /\ UNCHANGED << kanbanOthers, npx >>

\* smithers kanban start is run in a free terminal, or update() calls
\* start(): lines 50-52.
KanbanStart(t) ==
    /\ pc = "idle"
    /\ terminal[t].cmd = "none" \/ terminal[t].at = "start_which"
    /\ LET called == terminal[t].cmd # "none" IN
       KanbanDone(t, IF called THEN terminal[t].cmd ELSE "start",
                  IF called THEN terminal[t].before
                  ELSE session_exists(VIBEKANBAN_SESSION_NAME),
                  start_which(session_exists(VIBEKANBAN_SESSION_NAME), npx))

\* start(), lines 54-62.
KanbanStartExists(t) ==
    /\ pc = "idle"
    /\ terminal[t].at = "start_exists"
    /\ KanbanDone(t, terminal[t].cmd,
                  IF terminal[t].cmd = "start"
                  THEN session_exists(VIBEKANBAN_SESSION_NAME)
                  ELSE terminal[t].before,
                  start_exists(session_exists(VIBEKANBAN_SESSION_NAME)))

\* start(), lines 64-110.  tmux creates no session under a name that is
\* taken.
KanbanStartCreate(t) ==
    /\ pc = "idle"
    /\ terminal[t].at = "start_create"
    /\ \E deps \in {"ok", "raise"} : \E port \in PortRead :
       \E created \in {"ok", "fail", "raise"} :
          /\ session_exists(VIBEKANBAN_SESSION_NAME) => created # "ok"
          /\ KanbanDone(t, terminal[t].cmd, terminal[t].before,
                        StartSession(session_exists(VIBEKANBAN_SESSION_NAME),
                                     deps, port, created))

\* smithers kanban kill is run in a free terminal: lines 116-120.
KanbanKill(t) ==
    /\ pc = "idle"
    /\ terminal[t].cmd = "none"
    /\ KanbanDone(t, "kill", session_exists(VIBEKANBAN_SESSION_NAME),
                  kill_exists(session_exists(VIBEKANBAN_SESSION_NAME)))

\* kill(), lines 122-124.
KanbanKillSession(t) ==
    /\ pc = "idle"
    /\ terminal[t].at = "kill_session"
    /\ \E killed \in {"ok", "raise"} :
          KanbanDone(t, "kill", terminal[t].before,
                     kill_stop(session_exists(VIBEKANBAN_SESSION_NAME),
                               killed))

\* smithers kanban update is run in a free terminal: lines 133-135.
KanbanUpdate(t) ==
    /\ pc = "idle"
    /\ terminal[t].cmd = "none"
    /\ KanbanDone(t, "update", session_exists(VIBEKANBAN_SESSION_NAME),
                  update_which(session_exists(VIBEKANBAN_SESSION_NAME), npx))

\* update(), lines 137-141.
KanbanUpdateExists(t) ==
    /\ pc = "idle"
    /\ terminal[t].at = "update_exists"
    /\ KanbanDone(t, "update", session_exists(VIBEKANBAN_SESSION_NAME),
                  update_exists(session_exists(VIBEKANBAN_SESSION_NAME)))

\* update(), lines 142-143.
KanbanUpdateKill(t) ==
    /\ pc = "idle"
    /\ terminal[t].at = "update_kill"
    /\ \E killed \in {"ok", "raise"} :
          KanbanDone(t, "update", terminal[t].before,
                     update_kill(session_exists(VIBEKANBAN_SESSION_NAME),
                                 killed))

\* update(), lines 145-170: the npx run, which cannot be launched when npx
\* is not on PATH any more, and the decision to restart.
KanbanUpdateVersion(t) ==
    /\ pc = "idle"
    /\ terminal[t].at = "update_version"
    /\ \E version \in {"ok", "timeout", "raise"} :
          /\ ~npx => version = "raise"
          /\ KanbanDone(t, "update", terminal[t].before,
                        update_version(session_exists(VIBEKANBAN_SESSION_NAME),
                                       terminal[t].before, version))

\* npx is installed or removed, or PATH changes, between two steps.
NpxPathChanges ==
    /\ pc = "idle"
    /\ npx' = ~npx
    /\ UNCHANGED << kanbanOthers, live, kanbanRet, vibekanban_sessions,
                    terminal >>

InitKanban ==
    /\ KillQuiet
    /\ GitIdle
    /\ BoardIdle
    /\ live \in SUBSET ({VIBEKANBAN_SESSION_NAME} \cup SessionNames)
    /\ worktrees = {}
    /\ branches = {}
    /\ npx \in BOOLEAN
    /\ kanbanRet = NoKanbanCall
    /\ vibekanban_sessions =
          IF VIBEKANBAN_SESSION_NAME \in live THEN 1 ELSE 0
    /\ terminal = [ t \in Terminals |-> NoCommand ]

NextKanban ==
    \/ \E t \in Terminals : KanbanStart(t)
    \/ \E t \in Terminals : KanbanStartExists(t)
    \/ \E t \in Terminals : KanbanStartCreate(t)
    \/ \E t \in Terminals : KanbanKill(t)
    \/ \E t \in Terminals : KanbanKillSession(t)
    \/ \E t \in Terminals : KanbanUpdate(t)
    \/ \E t \in Terminals : KanbanUpdateExists(t)
    \/ \E t \in Terminals : KanbanUpdateKill(t)
    \/ \E t \in Terminals : KanbanUpdateVersion(t)
    \/ NpxPathChanges

SpecKanban == InitKanban /\ [][NextKanban]_vars

\* ---------------------------------------------------- kanban: claims

\* The step ended the kanban command of that name.
KanbanStep(name) == kanbanRet' # kanbanRet /\ kanbanRet'.cmd = name

\* The step is the first of a kanban command of that name: the command
\* has ended with it, or a free terminal is at the command's next place.
Begins(name) ==
    \/ terminal' = terminal /\ KanbanStep(name)
    \/ \E t \in Terminals :
          terminal[t].cmd = "none" /\ terminal'[t].cmd = name

\* The sessions other than vibe-kanban's are as they were.
OtherSessionsKept ==
    live' \ {VIBEKANBAN_SESSION_NAME} = live \ {VIBEKANBAN_SESSION_NAME}

\* C27: a kanban start or a kanban update invoked while npx is absent ends
\* at once with exit status 1 having issued no command at all: the live
\* sessions are the same after it as before, so start has created no
\* session and update has neither stopped the running vibe-kanban session
\* nor started one.
C27_MissingToolAbortsFirst ==
    [][ ((Begins("start") \/ Begins("update")) /\ ~npx)
           => /\ terminal' = terminal
              /\ kanbanRet'.exit = 1
              /\ kanbanRet'.ops = << >>
              /\ ~kanbanRet'.raised
              /\ vibekanban_sessions' = vibekanban_sessions
              /\ live' = live ]_vars

C27_Witness_UpdateWithoutNpx ==
    /\ ~npx
    /\ kanbanRet.cmd = "update"
    /\ kanbanRet.running_before
    /\ VIBEKANBAN_SESSION_NAME \in live
    /\ kanbanRet.ops = << >>
    /\ kanbanRet.exit = 1

\* C28: a kanban kill run while the vibe-kanban session is not running
\* issues no kill_session, raises nothing, returns with exit status 0 and
\* leaves every session as it was; so a second kanban kill after one that
\* stopped the session changes nothing.
C28_KillIsIdempotent ==
    [][ (Begins("kill") /\ ~session_exists(VIBEKANBAN_SESSION_NAME))
           => /\ terminal' = terminal
              /\ kanbanRet'.ops = << >>
              /\ ~kanbanRet'.raised
              /\ kanbanRet'.exit = 0
              /\ live' = live ]_vars

C28_Witness_SecondKill ==
    /\ kanbanRet.cmd = "kill"
    /\ kanbanRet.again
    /\ ~kanbanRet.running_before
    /\ kanbanRet.ops = << >>
    /\ kanbanRet.exit = 0
    /\ live = SessionNames

\* The restart of an update got as far as the creation of the session and
\* tmux did not fail: npx was found, the dependency check passed.
RestartRan(ops) ==
    /\ \E k \in 1..Len(ops) : ops[k] = << "ensure_dependencies", "ok" >>
    /\ \A k \in 1..Len(ops) : ops[k][1] = "new_session" => ops[k][2] = "ok"

\* C29: a kanban update stops the running vibe-kanban session, fetches the
\* latest version and restarts it: when an update that found the session
\* running has ended, the session is running, provided its start succeeded
\* (it returned with status 0, or nothing it depends on failed: npx was
\* found, tmux passed the dependency check and created the session); an
\* update that found no session running creates none.  The other sessions
\* are as they were.
C29_UpdateRestoresSession ==
    [][ \A t \in Terminals :
          (terminal[t].cmd = "update" /\ terminal'[t] = NoCommand)
             => LET ops == kanbanRet'.ops
                    was_running == terminal[t].before
                IN  /\ (was_running /\ terminal[t].at \in
                           {"start_which", "start_exists", "start_create"}
                                    /\ (kanbanRet'.exit = 0 \/ RestartRan(ops)))
                          => VIBEKANBAN_SESSION_NAME \in live'
                    /\ (~was_running /\ terminal[t].at # "update_exists")
                          => /\ \A k \in 1..Len(ops) :
                                   ops[k][1] # "new_session"
                             /\ live' = live
                    /\ OtherSessionsKept ]_vars

\* The auto-discovery calls cleanup made.
AutoDiscoverCalls ==
    SelectSeq(calls, LAMBDA c : c.op = "auto_discover_project_id")

\* C30: a cleanup run without a project argument works on the configured
\* active project, without auto-discovery, when one is configured, and on
\* the auto-discovered project only when none is.
C30_ConfiguredProjectFirst ==
    (cmd.name = "cleanup" /\ cmd.project = NoName /\ pc # "idle")
       => IF load_vibekanban_config.project_id # NoProject
          THEN /\ project_id = load_vibekanban_config.project_id
               /\ AutoDiscoverCalls = << >>
          ELSE /\ Len(AutoDiscoverCalls) = 1
               /\ project_id = AutoDiscoverCalls[1].arg

\* ------------------------------------------- kill: order within one item

\* C31: a PR is closed only right after its own successful lookup, and a
\* branch is deleted only right after the successful close of the PR whose
\* lookup gave that branch; so a failed lookup is followed neither by the
\* close nor by a branch delete for that PR, a failed close by no branch
\* delete, and a PR or branch is gone only after the calls before it
\* succeeded.
C31_PRActionsChained ==
    /\ \A b \in 1..Len(calls) :
          /\ calls[b].op = "close_pr"
                => /\ b > 1
                   /\ calls[b - 1] = Call("get_pr_info", calls[b].session,
                                          calls[b].arg, "ok")
          /\ calls[b].op = "delete_branch"
                => /\ b > 2
                   /\ calls[b - 1].op = "close_pr"
                   /\ calls[b - 1].res = "ok"
                   /\ calls[b - 1].session = calls[b].session
                   /\ calls[b - 2] = Call("get_pr_info", calls[b].session,
                                          calls[b - 1].arg, "ok")
                   /\ calls[b].arg = get_pr_info(calls[b - 1].arg, "ok").branch
    /\ \A pr \in OpenPRs0 \ openPRs :
          \E b \in 1..Len(calls) : calls[b].op = "close_pr" /\ calls[b].arg = pr
                                   /\ calls[b].res = "ok"
    /\ \A br \in Branches0 \ branches :
          \E b \in 2..Len(calls) :
              /\ calls[b].op = "delete_branch" /\ calls[b].arg = br
              /\ calls[b].res = "ok"
              /\ calls[b - 1].op = "close_pr" /\ calls[b - 1].res = "ok"

C31_Witness_LookupAndCloseFail ==
    /\ pc = "done"
    /\ \E a, b \in 1..Len(calls) :
          /\ calls[a].op = "get_pr_info" /\ calls[a].res = "raise"
          /\ calls[b].op = "close_pr" /\ calls[b].res = "raise"
          /\ calls[a].arg # calls[b].arg
    /\ CountCalls({"delete_branch"}, {"ok", "raise"}) = 0
    /\ branches = Branches0
    /\ openPRs = OpenPRs0
    /\ Branches0 # {}

\* The place of a session in the listing of kill --all.
PlaceOf(s) == CHOOSE k \in 1..Len(sessions) : sessions[k] = s

\* C32: in kill --all every call belongs to a session of the listing, the
\* calls of a session come after all calls of the sessions listed before
\* it and before all calls of those listed after it, each session is killed
\* at most once, and when the kill of a session is issued every session
\* listed before it has had its kill and all its tracked PRs, worktrees and
\* plan files attempted.
C32_SessionsOneAtATime ==
    args.all =>
       /\ \A b \in 1..Len(calls) :
             /\ \E k \in 1..Len(sessions) : sessions[k] = calls[b].session
             /\ \A a \in 1..(b - 1) :
                   PlaceOf(calls[a].session) <= PlaceOf(calls[b].session)
       /\ \A k \in 1..Len(sessions) :
             Len(ArgsOf(sessions[k], "kill_session")) <= 1
       /\ \A k \in 2..Len(sessions) :
             KillAttempted(sessions[k])
                => \A h \in 1..(k - 1) :
                      KillReturned(sessions[h]) /\ AllAttempted(sessions[h])
       /\ (pc \in {"kill", "prs", "wts", "plans", "after"})
             => /\ target_session = sessions[idx]
                /\ \A b \in 1..Len(calls) :
                      PlaceOf(calls[b].session) <= idx

C32_Witness_ThreeInOrder ==
    /\ args.all
    /\ pc = "done"
    /\ Len(sessions) = 3
    /\ tracked = [wt |-> MaxRes, pr |-> MaxRes, plan |-> MaxRes]
    /\ \A k \in 1..3 : KillReturned(sessions[k]) /\ AllAttempted(sessions[k])
    /\ calls[1].session = sessions[1]
    /\ calls[Len(calls)].session = sessions[3]
    /\ calls[Len(calls)].op = "unlink"

\* ------------------------------------- tracking that changes under the run

\* A session that is still running tracks new resources after the command
\* has discovered what to remove: the worktrees, the PRs or the plan files
\* of every session appear, with their tracking artifacts.  The change is
\* charged to the fault budget.
ExternalTracking ==
    /\ pc \in {"confirm", "confirm_all", "kill", "prs", "wts", "plans", "after"}
    /\ faults < MaxFaults
    /\ faults' = faults + 1
    /\ \/ /\ tracked.wt = 0
          /\ tracked' = [tracked EXCEPT !.wt = MaxRes]
          /\ worktrees' = worktrees \cup ResourceIds
          /\ UNCHANGED << openPRs, branches, planFiles >>
       \/ /\ tracked.pr = 0
          /\ tracked' = [tracked EXCEPT !.pr = MaxRes]
          /\ openPRs' = openPRs \cup ResourceIds
          /\ branches' = branches \cup ResourceIds
          /\ UNCHANGED << worktrees, planFiles >>
       \/ /\ tracked.plan = 0
          /\ tracked' = [tracked EXCEPT !.plan = MaxRes]
          /\ planFiles' = planFiles \cup ResourceIds
          /\ UNCHANGED << worktrees, openPRs, branches >>
    /\ UNCHANGED << otherVars, args, hint, live0, live, locals, sessions,
                    session_info, idx, i, prompts, calls, queries, out, pc,
                    exitCode >>

NextTrack ==
    \/ Next
    \/ ExternalTracking

SpecTrack == Init /\ [][NextTrack]_vars

\* What discovery found for a session the command tears down.
DiscoveredFor(s) ==
    IF args.all THEN session_info[PlaceOf(s)]
    ELSE [ mode |-> session_mode, worktrees |-> tracked_worktrees,
           prs |-> tracked_prs, plan_files |-> plan_files ]

IsPrefix(a, b) == Len(a) <= Len(b) /\ a = SubSeq(b, 1, Len(a))

\* The calls made for a session follow what was discovered for it, and
\* what was discovered is what was shown.
ActsOnDiscovered ==
    /\ \A b \in 1..Len(calls) :
          LET s == calls[b].session
              d == DiscoveredFor(s)
          IN  /\ IsPrefix(ArgsOf(s, "get_pr_info"), d.prs)
              /\ IsPrefix(ArgsOf(s, "cleanup_worktree"), d.worktrees)
              /\ IsPrefix(ArgsOf(s, "unlink"), d.plan_files)
              /\ Past(s, 2) => ArgsOf(s, "get_pr_info") = d.prs
              /\ Past(s, 3) => ArgsOf(s, "cleanup_worktree") = d.worktrees
              /\ Past(s, 4) => ArgsOf(s, "unlink") = d.plan_files
    /\ (args.all /\ calls # << >>)
          => /\ Len(session_info) = Len(sessions)
             /\ \A k \in 1..Len(sessions) :
                   out[k] = << "to_kill", [session |-> sessions[k],
                                           info |-> session_info[k]] >>
    /\ (~args.all /\ ~args.force /\ calls # << >>)
          => \E k \in 1..Len(out) :
                out[k] = << "cleanup_info",
                            [ session |-> target_session, mode |-> session_mode,
                              worktrees |-> tracked_worktrees,
                              prs |-> tracked_prs, plans |-> plan_files ] >>

\* Discovery is over before the first kill and is not done again.
DiscoveryFrozen ==
    /\ (args.all /\ pc \notin {"start"})
          => (session_info' = session_info /\ sessions' = sessions)
    /\ (args.all /\ pc' \in {"kill", "prs", "wts", "plans", "after"})
          => /\ session_mode' = session_info'[idx'].mode
             /\ tracked_worktrees' = session_info'[idx'].worktrees
             /\ tracked_prs' = session_info'[idx'].prs
             /\ plan_files' = session_info'[idx'].plan_files
    /\ (~args.all /\ pc \notin {"start", "gather"}) => UNCHANGED locals

\* C33: the PRs, worktrees and plan files the teardown of a session acts on
\* are, in order, the ones discovery found for it and the ones shown before
\* the confirmation; the discovered lists are complete before the first kill
\* and never change afterwards, even when the tracking artifacts do, so a
\* resource tracked only after discovery is not touched.
C33_ActsOnWhatWasDiscovered ==
    [] ActsOnDiscovered /\ [][DiscoveryFrozen]_vars

C33_Witness_TrackedLaterLeftAlone ==
    /\ args.all
    /\ pc = "done"
    /\ Len(sessions) >= 2
    /\ tracked.wt = MaxRes
    /\ \A k \in 1..Len(sessions) :
          /\ KillReturned(sessions[k])
          /\ session_info[k].worktrees = << >>
          /\ get_session_worktrees(sessions[k]) # << >>
    /\ CountCalls({"cleanup_worktree"}, {"ok", "nonzero", "raise"}) = 0
    /\ worktrees = ResourceIds

\* C34: a single kill without a name whose hint names a session that is not
\* live ends with the not-found error for the hinted session and exit
\* status 1, whatever sessions are live, a single one included: the session
\* list is read only to print it, no prompt is shown, no call is made, and
\* every session and resource stays.
C34_StaleHintNoFallback ==
    ( /\ ~args.all
      /\ pc # "start"
      /\ args.session = NoSession
      /\ hint # NoSession
      /\ hint \notin live0 )
    => /\ pc = "done"
       /\ exitCode = 1
       /\ target_session = hint
       /\ out[1] = << "error_not_found", hint >>
       /\ "list_smithers_sessions" \notin queries
       /\ prompts = << >>
       /\ calls = << >>
       /\ WorldUntouched

C34_Witness_OneOtherLive ==
    /\ ~args.all
    /\ pc = "done"
    /\ args.session = NoSession
    /\ hint # NoSession
    /\ hint \notin live0
    /\ Cardinality(live0) = 1
    /\ live = live0
    /\ exitCode = 1
    /\ tracked = [wt |-> MaxRes, pr |-> MaxRes, plan |-> MaxRes]

\* The calls made with one of the outcomes for the argument, and the lines
\* of a kind printed about it.
CallsFor(op, arg, results) ==
    Len(SelectSeq(calls, LAMBDA c : c.op = op /\ c.arg = arg /\ c.res \in results))

LinesFor(kind, arg) == Len(SelectSeq(out, LAMBDA l : l = << kind, arg >>))

\* C35: in the kill command every worktree removal whose command ran, with
\* exit status 0 or not, prints the removed line for its branch and no
\* warning, and only a removal whose command could not be launched prints
\* the warning; after a non-zero status the worktree is still there.
C35_NonZeroRemovalReportedRemoved ==
    \A branch \in ResourceIds :
       /\ LinesFor("removed_worktree", branch)
             = CallsFor("cleanup_worktree", branch, {"ok", "nonzero"})
       /\ LinesFor("warn_worktree", branch)
             = CallsFor("cleanup_worktree", branch, {"raise"})
       /\ (CallsFor("cleanup_worktree", branch, {"nonzero"}) > 0
             /\ branch \in Worktrees0) => branch \in worktrees

C35_Witness_FailedRemovalShownRemoved ==
    /\ pc = "done"
    /\ \E branch \in Worktrees0 :
          /\ CallsFor("cleanup_worktree", branch, {"nonzero"}) = 1
          /\ branch \in worktrees
          /\ LinesFor("removed_worktree", branch) = 1
    /\ CountLines({"warn_worktree"}) = 0
    /\ CountCalls({"cleanup_worktree"}, {"raise"}) = 0

\* The number of runs of the last call that ended as one of the results.
RunsEnding(results) ==
    Cardinality({ k \in 1..Len(gitRet.res) : gitRet.res[k] \in results })

\* C36: remove_worktrees runs the removal of every branch of its input once
\* and in order, whether or not an earlier removal failed, and returns
\* removed + failed equal to the number of input branches, removed being
\* the number of removals that exited with status 0.
C36_EveryBranchAttemptedAndCounted ==
    gitRet.op = "remove_worktrees" =>
       /\ ~gitRet.raised
       /\ gitRet.attempted = gitRet.arg
       /\ gitRet.removed + gitRet.failed = Len(gitRet.arg)
       /\ gitRet.removed = RunsEnding({"ok"})

\* ------------------------------------- the tracking list of GitService

\* GitService.cleanup_all_worktrees: cleanup_worktree for every branch of a
\* copy of the tracking list, in order; a removal command that cannot be
\* launched raises out of the loop.  rs gives the outcome of each run, and
\* valid says whether the runs can end so.
RECURSIVE cleanup_all_worktrees(_, _, _, _)
cleanup_all_worktrees(wts, created, todo, rs) ==
    IF todo = << >>
    THEN [ raised |-> FALSE, valid |-> TRUE, worktrees |-> wts,
           created |-> created ]
    ELSE LET r == cleanup_worktree(wts, created, Head(todo), Head(rs)) IN
         IF Head(rs) \notin GtrRmOutcomes(wts, Head(todo))
         THEN [ raised |-> FALSE, valid |-> FALSE, worktrees |-> wts,
                created |-> created ]
         ELSE IF r.raised
         THEN [ raised |-> TRUE,
                valid |-> \A k \in 2..Len(rs) : rs[k] = "raise",
                worktrees |-> r.worktrees, created |-> r.created ]
         ELSE cleanup_all_worktrees(r.worktrees, r.created, Tail(todo),
                                    Tail(rs))

\* One call of GitService.cleanup_all_worktrees().
GitCleanupAllWorktrees ==
    /\ pc = "idle"
    /\ ~creating.active
    /\ \E rs \in [1..Len(created_worktrees) -> {"ok", "nonzero", "raise"}] :
         LET r == cleanup_all_worktrees(worktrees, created_worktrees,
                                        created_worktrees, rs)
         IN /\ r.valid
            /\ worktrees' = r.worktrees
            /\ created_worktrees' = r.created
            /\ gitRet' = [ op |-> "cleanup_all_worktrees",
                           arg |-> created_worktrees,
                           res |-> rs,
                           absent |-> << >>,
                           again |-> gitRet.op = "cleanup_all_worktrees",
                           raised |-> r.raised,
                           removed |-> 0,
                           failed |-> 0,
                           path |-> << >>,
                           attempted |-> << >> ]
            /\ worktree_count' = [ b \in GitBranches |->
                                     IF b \in r.worktrees
                                     THEN worktree_count[b] ELSE 0 ]
    /\ UNCHANGED << kanbanVars, boardVars, killVars, branches, depends_on,
                    default_base, base_ref, creating >>

\* Somebody else removes a worktree (`git gtr rm`, `git worktree remove`)
\* between two calls on the service object, or between the two tool runs
\* of a create_worktree call.  The removal is charged to the
\* fault budget.
WorktreeRemovedOutOfBand ==
    /\ pc = "idle"
    /\ faults < MaxFaults
    /\ faults' = faults + 1
    /\ \E b \in worktrees :
          /\ worktrees' = worktrees \ {b}
          /\ worktree_count' = [worktree_count EXCEPT ![b] = 0]
    /\ UNCHANGED << kanbanVars, boardVars, inputs, live, openPRs, planFiles,
                    locals, sessions, session_info, idx, i, prompts, calls,
                    queries, out, pc, exitCode, branches, created_worktrees,
                    gitRet, depends_on, default_base, base_ref, creating >>

\* Any sequence of create_worktree, cleanup_worktree and
\* cleanup_all_worktrees calls with worktrees removed out-of-band between
\* them.
NextTracking ==
    \/ GitCreateWorktree
    \/ GitCreateWorktreePath
    \/ GitCleanupWorktree
    \/ GitCleanupAllWorktrees
    \/ WorktreeRemovedOutOfBand

SpecTracking == InitGit /\ [][NextTracking]_vars

\* How often the tracking list holds the branch.
TimesTracked(branch) ==
    Cardinality({ k \in 1..Len(created_worktrees) :
                     created_worktrees[k] = branch })

\* Every removal command of the last call was launched.
AllLaunched == \A k \in 1..Len(gitRet.res) : gitRet.res[k] # "raise"

\* C37: the tracking list created_worktrees never holds a branch twice;
\* after cleanup_worktree(branch) whose removal command ran, with whatever
\* exit status, the branch is not in the list; after cleanup_all_worktrees
\* whose removal commands ran the list is empty.
C37_TrackedAtMostOnce ==
    /\ \A branch \in GitBranches : TimesTracked(branch) <= 1
    /\ (gitRet.op = "cleanup_worktree" /\ AllLaunched)
          => TimesTracked(gitRet.arg[1]) = 0
    /\ (gitRet.op = "cleanup_all_worktrees" /\ AllLaunched)
          => created_worktrees = << >>

\* There is at most one vibe-kanban session, and the session name is live
\* exactly when there is one.
OneSessionAtMost ==
    /\ vibekanban_sessions <= 1
    /\ VIBEKANBAN_SESSION_NAME \in live <=> vibekanban_sessions = 1

\* A kanban start run while the session is running issues no command,
\* raises nothing, exits 0 when npx is there, and leaves every session as
\* it was.
StartOnRunningIsNoOp ==
    /\ (/\ session_exists(VIBEKANBAN_SESSION_NAME)
        /\ \/ Begins("start")
           \/ \E t \in Terminals :
                 terminal[t].cmd = "start" /\ terminal'[t] # terminal[t])
          => /\ live' = live
             /\ vibekanban_sessions' = vibekanban_sessions
    /\ \A t \in Terminals :
          (/\ session_exists(VIBEKANBAN_SESSION_NAME)
           /\ terminal[t].cmd = "start"
           /\ terminal[t].at = "start_exists"
           /\ terminal'[t] # terminal[t])
             => /\ terminal'[t] = NoCommand
                /\ kanbanRet'.cmd = "start"
                /\ kanbanRet'.ops = << >>
                /\ ~kanbanRet'.raised
                /\ kanbanRet'.exit = 0

\* C38: after any sequence of kanban start, kanban kill and kanban update
\* there is at most one vibe-kanban background session; a kanban start run
\* while the session is running creates no second session and changes
\* nothing.
C38_AtMostOneKanbanSession ==
    [] OneSessionAtMost /\ [][StartOnRunningIsNoOp]_vars

C38_Witness_StartWhileRunning ==
    /\ npx
    /\ kanbanRet.cmd = "start"
    /\ kanbanRet.again
    /\ kanbanRet.running_before
    /\ kanbanRet.ops = << >>
    /\ kanbanRet.exit = 0
    /\ vibekanban_sessions = 1
    /\ VIBEKANBAN_SESSION_NAME \in live

\* C39: for every project list and every queried name, cleanup's
\* _resolve_project_by_name yields a project exactly when projects'
\* _set_project selects one, and the two are the same project; so cleanup
\* works on the project that projects would save, and projects saves the
\* project that cleanup would work on.
C39_ResolversAgree ==
    cmd.project # NoName =>
       LET r == resolve_project_by_name(cmd.project, project_list)
           s == set_project(cmd.project, project_list)
       IN  /\ (r.id # NoProject) <=> (s.id # NoProject)
           /\ r.id = s.id
           /\ (pc # "idle" /\ cmd.name = "cleanup")
                 => IF s.id # NoProject THEN project_id = s.id
                    ELSE pc = "done" /\ exitCode = 1
           /\ (pc # "idle" /\ cmd.name = "projects" /\ project_list # << >>)
                 => IF r.id # NoProject
                    THEN Len(SaveCalls) = 1 /\ SaveCalls[1].arg = r.id
                    ELSE SaveCalls = << >> /\ exitCode = 1

C39_Witness_SameProjectAmongSeveral ==
    /\ cmd.name = "projects"
    /\ cmd.project = << "n" >>
    /\ Len(project_list) = 2
    /\ project_list[1].name = << "n", "o" >>
    /\ project_list[2].name = << "N" >>
    /\ pc = "done"
    /\ SaveCalls # << >>
    /\ SaveCalls[1].arg = ProjectId(2)
    /\ resolve_project_by_name(cmd.project, project_list).id = ProjectId(2)
    /\ cfg.file = ProjectId(2)

====
